---- MODULE Spec2Model ----
(***************************************************************************)
(* DeltaRuntime: content-addressed blob store, workspace normalizer and    *)
(* hardlink runtime builder (src-tauri/src).  The file system is modelled  *)
(* by file identities: two directory entries hold the same record exactly  *)
(* when they are hardlinks of one file.                                    *)
(***************************************************************************)
EXTENDS Integers, Sequences, FiniteSets, TLC

\* ------------------------------------------------------------------ bounds
MaxClock == 2                     \* seconds the wall clock can show
MaxBuilds == 2                    \* build_runtime invocations in one run
MaxWrites == 1                    \* files the user writes in one run
MaxStoreWrites == 3               \* the same, in runs of the blob store alone
MaxCalls == 2                      \* index calls one watcher thread makes
MaxEvents == 2                     \* writes and deletions in a watched workspace
Profiles == {"A", "B"}            \* profile names
BuildProfile == "A"               \* the profile build_runtime is invoked for
Digests == {"d1", "d2"}           \* BLAKE3 digests of the contents in play
BasePaths == {"a", "b"}           \* files of the base installation
WsPaths == {"b", "c"}             \* file names a workspace may hold
Builders == {1, 2}                \* build_runtime invocations that may overlap

RelPaths == BasePaths \cup WsPaths
PlanName == "runtime_plan.json"
TmpName == ".tmp_uuid"
DirNames == RelPaths \cup {PlanName, TmpName}
Clock == 1..MaxClock

\* ------------------------------------------------------- file identities
NoFile == [kind |-> "none", id |-> "none"]
BaseFile(r) == [kind |-> "base", id |-> r]
BlobFile(d) == [kind |-> "blob", id |-> d]
RawFile(d) == [kind |-> "raw", id |-> d]
\* a link to the inode of a blob whose blob-store entry has been unlinked
OrphanFile(d) == [kind |-> "orphan", id |-> d]
PlanJson == [kind |-> "plan", id |-> "json"]

EmptyFiles == [n \in DirNames |-> NoFile]
NoDir == [exists |-> FALSE, files |-> EmptyFiles]
EntriesOf(dir) == {n \in DirNames : dir.files[n] # NoFile}

VARIABLES
    now,        \* SystemTime::now() in seconds
    ws,         \* ws[p][r]: the file at <profiles>/p/workspace/r
    blobs,      \* blobs[d]: content of blobs/blake3/<aa>/d, "none" when absent
    index,      \* index.json: digest -> Vec<BlobReference>
    latest,     \* <runtimes>/<BuildProfile>-latest
    staging,    \* staging[t]: <runtimes>/<BuildProfile>-<t>-tmp
    pc,         \* pc[b]: where build_runtime invocation b stands
    plan,       \* plan[b]: the RuntimePlan entries of invocation b
    tmp,        \* tmp[b]: timestamp of b's temp_runtime_dir (0: none yet)
    linked,     \* linked[b]: rel_paths b's workers have linked
    phase,      \* phase[b]: phase of the last BuildProgress b delivered
    completed,  \* completed[b]: its completed flag
    second,     \* second[b]: b started while another invocation was running
    builds,     \* build_runtime invocations so far
    writes,     \* files the user has written so far
    lastGood,   \* contents of -latest when a build last returned success
    wsTree,     \* paths of the entries of BuildProfile's workspace directory
    tombstones, \* VirtualFileSystem.tombstones: the paths with a tombstone
    indexFile,  \* index.json on disk: "missing", "json" (it parses to index) or "corrupt"
    txn,        \* txn[w]: the index call watcher thread w is inside of
    acked,      \* <<d, p, r>> whose last add_ref/remove_ref returned Ok as add
    pending,    \* pending[p][r]: pending_changes of p's debounce thread
    dropped,    \* <<p, r>> whose last normalize_file returned Err
    chan,       \* chan[p]: events in the channel of p's watcher, oldest first
    batch,      \* batch[p]: the changes process_file_changes has still to do
    quiet,      \* quiet[p]: recv timeouts of 50 ms since last_activity
    last,       \* last[p][r]: kind of the last event received for r since the flush
    norms,      \* norms[p][r]: times r was replaced by a link since it was written
    alive       \* alive[p]: "watching", "stopped" (senders dropped) or "exited"

vars == <<now, ws, blobs, index, latest, staging, pc, plan, tmp, linked,
          phase, completed, second, builds, writes, lastGood, txn, acked,
          pending, dropped, indexFile, wsTree, tombstones,
          chan, batch, quiet, last, norms, alive>>
overlayVars == <<wsTree, tombstones>>
debounceVars == <<chan, batch, quiet, last, norms, alive>>
watchVars == <<pending, dropped, debounceVars>>
storeVars == <<ws, blobs, index, indexFile, writes, txn, acked, watchVars>>
runtimeVars == <<latest, staging>>
locals == <<plan, tmp, linked>>
buildVars == <<pc, plan, tmp, linked, phase, completed, second, builds, lastGood>>

\* ------------------------------------------------------------ blob index
Ref(p, r) == <<p, r>>
SeqToSet(s) == {s[i] : i \in 1..Len(s)}
HasRef(idx, d, p, r) == d \in DOMAIN idx /\ Ref(p, r) \in SeqToSet(idx[d])
\* find_blob_hash_for_file walks a HashMap: any digest listing (p, r) may be
\* the one returned.
FindBlobHashForFile(idx, p, r) == {d \in DOMAIN idx : HasRef(idx, d, p, r)}
BlobExists(d) == blobs[d] # "none"
EmptyIndex == [d \in {} |-> <<>>]
\* save_index: fs::write leaves a file that parses
SaveIndex == indexFile' = "json"
\* load_index that reads a file it cannot parse as an empty index
LoadIndexLenient(file, idx) ==
    IF file = "json" THEN [ok |-> TRUE, refs |-> idx]
    ELSE [ok |-> TRUE, refs |-> EmptyIndex]
\* load_index: a missing file is the default index, a file that does not
\* parse is Err(InvalidData)
LoadIndexResult(file, idx) ==
    IF file = "missing" THEN [ok |-> TRUE, refs |-> EmptyIndex]
    ELSE IF file = "corrupt" THEN [ok |-> FALSE, refs |-> EmptyIndex]
    ELSE [ok |-> TRUE, refs |-> idx]
RefsOf(idx, d) == IF d \in DOMAIN idx THEN SeqToSet(idx[d]) ELSE {}

\* refs.retain(|r| !(r.profile == profile && r.rel_path == rel_path))
Retain(s, p, r) == SelectSeq(s, LAMBDA x : x # Ref(p, r))
\* the index without the keys in gone
DropKeys(idx, gone) == [d \in DOMAIN idx \ gone |-> idx[d]]

\* how often x occurs in the list s
Count(s, x) == Cardinality({i \in 1..Len(s) : s[i] = x})

\* process_notify_event keeping the first event of a path
NotifyKeepingFirst(p, r, kind) ==
    pending' = [pending EXCEPT ![p][r] = IF @ = "none" THEN kind ELSE @]

\* add_ref that stores the new reference as the digest's whole list
AddRefReplacing(idx, d, p, r) ==
    [x \in DOMAIN idx \cup {d} |-> IF x = d THEN <<Ref(p, r)>> ELSE idx[x]]

\* add_ref that pushes without looking for the reference
AddRefAlways(idx, d, p, r) ==
    [x \in DOMAIN idx \cup {d} |->
        IF x = d
        THEN (IF d \in DOMAIN idx THEN Append(idx[d], Ref(p, r)) ELSE <<Ref(p, r)>>)
        ELSE idx[x]]

\* add_ref: entry(hash).or_insert_with(Vec::new), push unless already listed
AddRef(idx, d, p, r) ==
    IF HasRef(idx, d, p, r) THEN idx
    ELSE [x \in DOMAIN idx \cup {d} |->
            IF x = d
            THEN (IF d \in DOMAIN idx THEN Append(idx[d], Ref(p, r)) ELSE <<Ref(p, r)>>)
            ELSE idx[x]]

\* remove_ref that keeps the key of an emptied list
RemoveRefKeepingKey(idx, d, p, r) ==
    IF d \notin DOMAIN idx THEN idx
    ELSE [idx EXCEPT ![d] = Retain(idx[d], p, r)]

\* remove_ref: retain, and remove the entry when its list became empty
RemoveRef(idx, d, p, r) ==
    IF d \notin DOMAIN idx THEN idx
    ELSE IF Retain(idx[d], p, r) = <<>> THEN DropKeys(idx, {d})
    ELSE [idx EXCEPT ![d] = Retain(idx[d], p, r)]

\* should_remove_blob taken from the list as it was before the retain
RemoveRefResultBefore(idx, d, p, r) ==
    d \notin DOMAIN idx \/ idx[d] = <<>>

\* remove_ref's return value should_remove_blob
RemoveRefResult(idx, d, p, r) ==
    d \notin DOMAIN idx \/ Retain(idx[d], p, r) = <<>>

\* remove_existing_ref: the digests that listed (p, r) ...
FoundHashes(idx, p, r) == {d \in DOMAIN idx : Ref(p, r) \in SeqToSet(idx[d])}
\* remove_existing_ref's entries_to_remove under a predicate that ignores
\* whether the digest's list became empty
EntriesToRemoveAnyFound(idx, p, r) == FoundHashes(idx, p, r)
\* entries_to_remove that is never pushed to
EntriesToRemoveNone(idx, p, r) == {}
\* ... entries_to_remove: those whose list became empty ...
EntriesToRemove(idx, p, r) ==
    {d \in FoundHashes(idx, p, r) : Retain(idx[d], p, r) = <<>>}
\* a remove_existing_ref that drops every entry it found (p, r) in
RemoveExistingRefIndexDroppingFound(idx, p, r) ==
    [d \in DOMAIN idx \ FoundHashes(idx, p, r) |-> idx[d]]
\* ... and the index it saves
RemoveExistingRefIndex(idx, p, r) ==
    [d \in DOMAIN idx \ EntriesToRemove(idx, p, r) |-> Retain(idx[d], p, r)]
\* remove_existing_ref's found_hash: the entry found last in the HashMap's
\* iteration order, None when no entry listed (p, r)
RemoveExistingRefResult(idx, p, r) ==
    IF FoundHashes(idx, p, r) = {} THEN {"none"} ELSE FoundHashes(idx, p, r)

\* --------------------------------------------------------------- planner
\* the bytes of a file, named by their digest; a hardlink of a blob reads the blob
Content(f) == IF f.kind = "blob" THEN blobs[f.id] ELSE f.id
\* hash_file
HashFile(f) == Content(f)
GetBlobHashForFile(p, r) ==
    IF FindBlobHashForFile(index, p, r) # {}
    THEN FindBlobHashForFile(index, p, r)
    ELSE {HashFile(ws[p][r])}

InWorkspace(p, r) == r \in WsPaths /\ ws[p][r] # NoFile

BaseEntry(r) ==
    [rel_path |-> r, source |-> "Base", digest |-> "none",
     has_base |-> TRUE, is_override |-> FALSE]
BlobEntry(r, d) ==
    [rel_path |-> r, source |-> "Blob", digest |-> d,
     has_base |-> r \in BasePaths, is_override |-> r \in BasePaths]

\* compute_plan: one entry per file of the overlay view
ComputePlan(p) ==
    LET wsFiles == {r \in WsPaths : InWorkspace(p, r)}
        choices == {f \in [wsFiles -> Digests] :
                       \A r \in wsFiles : f[r] \in GetBlobHashForFile(p, r)}
    IN  {{BaseEntry(r) : r \in BasePaths \ wsFiles}
            \cup {BlobEntry(r, f[r]) : r \in wsFiles} : f \in choices}

\* node.size: metadata.len() of the node's primary path, the workspace file
\* when there is one; a file's length goes with its content
ContentSizes == [d1 |-> 1, d2 |-> 2, partial |-> 0, none |-> 0]
BaseSizes == [a |-> 3, b |-> 4]
NodeSize(p, r) ==
    IF InWorkspace(p, r) THEN ContentSizes[Content(ws[p][r])] ELSE BaseSizes[r]

\* the counters compute_plan starts traverse_and_plan with
NoTotals == [sizes |-> <<>>, total_size |-> 0, base_files |-> 0, blob_files |-> 0]

\* a file node that counts an override as neither base nor blob file
CountEntrySkippingOverride(p, acc, e) ==
    [sizes |-> Append(acc.sizes, NodeSize(p, e.rel_path)),
     total_size |-> acc.total_size + NodeSize(p, e.rel_path),
     base_files |-> acc.base_files + (IF e.source = "Base" THEN 1 ELSE 0),
     blob_files |-> acc.blob_files + (IF e.source = "Blob" /\ ~e.is_override THEN 1 ELSE 0)]

\* traverse_and_plan on a file node: total_size += size, base_files or
\* blob_files += 1, and the entry is pushed with that size
CountEntry(p, acc, e) ==
    [sizes |-> Append(acc.sizes, NodeSize(p, e.rel_path)),
     total_size |-> acc.total_size + NodeSize(p, e.rel_path),
     base_files |-> acc.base_files + (IF e.source = "Base" THEN 1 ELSE 0),
     blob_files |-> acc.blob_files + (IF e.source = "Blob" THEN 1 ELSE 0)]

RECURSIVE Traverse(_, _, _)
Traverse(p, todo, acc) ==
    IF todo = {} THEN acc
    ELSE LET e == CHOOSE x \in todo : TRUE
         IN  Traverse(p, todo \ {e}, CountEntry(p, acc, e))

\* the RuntimePlan compute_plan makes of the entries pl: entry i has size
\* sizes[i], total_files is entries.len()
RuntimePlan(p, pl) ==
    LET t == Traverse(p, pl, NoTotals)
    IN  [sizes |-> t.sizes, total_files |-> Len(t.sizes), total_size |-> t.total_size,
         base_files |-> t.base_files, blob_files |-> t.blob_files]

RECURSIVE SumSeq(_)
SumSeq(s) == IF s = <<>> THEN 0 ELSE s[1] + SumSeq(Tail(s))

BaseEntries(pl) == {e \in pl : e.source = "Base"}
BlobEntries(pl) == {e \in pl : e.source = "Blob"}

\* ------------------------------------------------------------ file system
\* std::fs::hard_link(src, dir/name): the new entry is the same file as src
HardLink(dir, name, src) ==
    [dir EXCEPT !.exists = TRUE, !.files[name] = src]
RemoveFile(dir, name) == [dir EXCEPT !.files[name] = NoFile]

\* the planned source of an entry
SourceFile(e) == IF e.source = "Base" THEN BaseFile(e.rel_path) ELSE BlobFile(e.digest)

\* ---------------------------------------------------------------- builder
Running(b) == pc[b] \notin {"idle", "done", "failed", "err"}
NoBuildRunning == \A b \in Builders : ~Running(b)

Report(b, ph, fin) ==
    /\ phase' = [phase EXCEPT ![b] = ph]
    /\ completed' = [completed EXCEPT ![b] = fin]
\* build_runtime returns: its locals are dropped
DropLocals(b) ==
    /\ plan' = [plan EXCEPT ![b] = {}]
    /\ tmp' = [tmp EXCEPT ![b] = 0]
    /\ linked' = [linked EXCEPT ![b] = {}]
\* a `?` that returns Err: nothing is reported
ReturnErr(b) ==
    /\ pc' = [pc EXCEPT ![b] = "err"]
    /\ DropLocals(b)
    /\ UNCHANGED <<phase, completed>>

\* build_runtime is entered: the Preflight report
StartBuild(b) ==
    /\ ~Running(b)
    /\ builds < MaxBuilds
    /\ builds' = builds + 1
    /\ pc' = [pc EXCEPT ![b] = "preflight"]
    /\ Report(b, "Preflight", FALSE)
    /\ second' = [second EXCEPT ![b] = \E o \in Builders \ {b} : Running(o)]
    /\ UNCHANGED <<overlayVars, now, storeVars, runtimeVars, locals, lastGood>>

\* preflight_checks or compute_plan fails: Failed is reported, Ok(success=false)
PreflightFail(b) ==
    /\ pc[b] = "preflight"
    /\ pc' = [pc EXCEPT ![b] = "failed"]
    /\ Report(b, "Failed", TRUE)
    /\ UNCHANGED <<overlayVars, now, storeVars, runtimeVars, locals, second, builds, lastGood>>

\* preflight_checks and compute_plan succeed: the CreateTemp report
PreflightOk(b) ==
    /\ pc[b] = "preflight"
    /\ \E pl \in ComputePlan(BuildProfile) : plan' = [plan EXCEPT ![b] = pl]
    /\ pc' = [pc EXCEPT ![b] = "createtemp"]
    /\ Report(b, "CreateTemp", FALSE)
    /\ UNCHANGED <<overlayVars, now, storeVars, runtimeVars, tmp, linked, second, builds, lastGood>>

\* create_temp_runtime_dir that clears the published runtime before staging
CreateTempDirWipingLatest(b) ==
    /\ pc[b] = "createtemp"
    /\ tmp' = [tmp EXCEPT ![b] = now]
    /\ staging' = [staging EXCEPT ![now] = [@ EXCEPT !.exists = TRUE]]
    /\ latest' = NoDir
    /\ pc' = [pc EXCEPT ![b] = "linkbase"]
    /\ Report(b, "LinkBase", FALSE)
    /\ UNCHANGED <<overlayVars, now, storeVars, plan, linked, second, builds, lastGood>>

\* create_temp_runtime_dir: create_dir_all succeeds on an existing directory
CreateTempDir(b) ==
    /\ pc[b] = "createtemp"
    /\ tmp' = [tmp EXCEPT ![b] = now]
    /\ staging' = [staging EXCEPT ![now] = [@ EXCEPT !.exists = TRUE]]
    /\ pc' = [pc EXCEPT ![b] = "linkbase"]
    /\ Report(b, "LinkBase", FALSE)
    /\ UNCHANGED <<overlayVars, now, storeVars, latest, plan, linked, second, builds, lastGood>>

CreateTempFail(b) ==
    /\ pc[b] = "createtemp"
    /\ ReturnErr(b)
    /\ UNCHANGED <<overlayVars, now, storeVars, runtimeVars, second, builds, lastGood>>

\* link_base_files, one worker task: create_dir_all(parent), hard_link
LinkBaseFile(b, e) ==
    /\ pc[b] = "linkbase"
    /\ e \in BaseEntries(plan[b])
    /\ e.rel_path \notin linked[b]
    /\ IF staging[tmp[b]].files[e.rel_path] # NoFile
       THEN \* hard_link: AlreadyExists
            /\ ReturnErr(b)
            /\ UNCHANGED staging
       ELSE /\ staging' = [staging EXCEPT ![tmp[b]] =
                              HardLink(@, e.rel_path, BaseFile(e.rel_path))]
            /\ linked' = [linked EXCEPT ![b] = @ \cup {e.rel_path}]
            /\ UNCHANGED <<pc, phase, completed, plan, tmp>>
    /\ UNCHANGED <<overlayVars, now, storeVars, latest, second, builds, lastGood>>

\* an I/O error in a link_base_files task
LinkBaseFail(b) ==
    /\ pc[b] = "linkbase"
    /\ \E e \in BaseEntries(plan[b]) : e.rel_path \notin linked[b]
    /\ ReturnErr(b)
    /\ UNCHANGED <<overlayVars, now, storeVars, runtimeVars, second, builds, lastGood>>

\* link_base_files returned Ok: the OverlayWorkspace report
LinkBaseDone(b) ==
    /\ pc[b] = "linkbase"
    /\ \A e \in BaseEntries(plan[b]) : e.rel_path \in linked[b]
    /\ pc' = [pc EXCEPT ![b] = "overlay"]
    /\ Report(b, "OverlayWorkspace", FALSE)
    /\ UNCHANGED <<overlayVars, now, storeVars, runtimeVars, locals, second, builds, lastGood>>

\* the directory after `if entry.is_override && dest_path.exists() { remove_file }`
RemoveBaseForOverride(dir, e) ==
    IF e.is_override /\ dir.files[e.rel_path] # NoFile
    THEN RemoveFile(dir, e.rel_path)
    ELSE dir

\* link_blob_to with a copy fallback: dst is a new file with the blob's bytes
LinkBlobToCopy(dir, name, d) == HardLink(dir, name, RawFile(d))

\* link_blob_to(dst, blob): hard_link(blob, temp) then rename(temp, dst)
LinkBlobTo(dir, name, d) == HardLink(dir, name, BlobFile(d))
\* link_blob_to stopped between the hard_link and the rename
LinkBlobToTempOnly(dir, d) == HardLink(dir, TmpName, BlobFile(d))

\* overlay_workspace_files, one worker task
OverlayFile(b, e) ==
    /\ pc[b] = "overlay"
    /\ e \in BlobEntries(plan[b])
    /\ e.rel_path \notin linked[b]
    /\ LET dir == RemoveBaseForOverride(staging[tmp[b]], e) IN
       IF ~BlobExists(e.digest)
       THEN \* hard_link fails: the blob file is missing
            /\ staging' = [staging EXCEPT ![tmp[b]] = dir]
            /\ ReturnErr(b)
       ELSE \/ /\ staging' = [staging EXCEPT ![tmp[b]] = LinkBlobTo(dir, e.rel_path, e.digest)]
               /\ linked' = [linked EXCEPT ![b] = @ \cup {e.rel_path}]
               /\ UNCHANGED <<pc, phase, completed, plan, tmp>>
            \/ \* the rename fails
               /\ staging' = [staging EXCEPT ![tmp[b]] = LinkBlobToTempOnly(dir, e.digest)]
               /\ ReturnErr(b)
    /\ UNCHANGED <<overlayVars, now, storeVars, latest, second, builds, lastGood>>

\* an I/O error in an overlay_workspace_files task before it touched the tree
OverlayFail(b) ==
    /\ pc[b] = "overlay"
    /\ \E e \in BlobEntries(plan[b]) : e.rel_path \notin linked[b]
    /\ ReturnErr(b)
    /\ UNCHANGED <<overlayVars, now, storeVars, runtimeVars, second, builds, lastGood>>

\* overlay_workspace_files returned Ok: the Finalize report
OverlayDone(b) ==
    /\ pc[b] = "overlay"
    /\ \A e \in BlobEntries(plan[b]) : e.rel_path \in linked[b]
    /\ pc' = [pc EXCEPT ![b] = "finalize"]
    /\ Report(b, "Finalize", FALSE)
    /\ UNCHANGED <<overlayVars, now, storeVars, runtimeVars, locals, second, builds, lastGood>>

\* finalize_runtime: `if final_dir.exists()`
FinalizeCheck(b) ==
    /\ pc[b] = "finalize"
    /\ pc' = [pc EXCEPT ![b] = IF latest.exists THEN "removing" ELSE "rename"]
    /\ UNCHANGED <<overlayVars, now, storeVars, runtimeVars, locals, phase, completed, second,
                   builds, lastGood>>

\* remove_dir_all(final_dir) unlinks the entries one by one
RemoveLatestEntry(b, n) ==
    /\ pc[b] = "removing"
    /\ latest.exists
    /\ n \in EntriesOf(latest)
    /\ latest' = RemoveFile(latest, n)
    /\ UNCHANGED <<overlayVars, now, storeVars, staging, buildVars>>

\* remove_dir_all(final_dir) removes the emptied directory
RemoveLatestDir(b) ==
    /\ pc[b] = "removing"
    /\ latest.exists
    /\ EntriesOf(latest) = {}
    /\ latest' = NoDir
    /\ pc' = [pc EXCEPT ![b] = "rename"]
    /\ UNCHANGED <<overlayVars, now, storeVars, staging, locals, phase, completed, second,
                   builds, lastGood>>

\* remove_dir_all(final_dir) fails: an entry cannot be removed, or the
\* directory is gone
RemoveLatestFail(b) ==
    /\ pc[b] = "removing"
    /\ ReturnErr(b)
    /\ UNCHANGED <<overlayVars, now, storeVars, runtimeVars, second, builds, lastGood>>

\* fs::rename(temp_dir, final_dir)
RenameStaging(b) ==
    /\ pc[b] = "rename"
    /\ staging[tmp[b]].exists
    /\ ~latest.exists
    /\ latest' = staging[tmp[b]]
    /\ staging' = [staging EXCEPT ![tmp[b]] = NoDir]
    /\ pc' = [pc EXCEPT ![b] = "saveplan"]
    /\ UNCHANGED <<overlayVars, now, storeVars, locals, phase, completed, second, builds, lastGood>>

RenameFail(b) ==
    /\ pc[b] = "rename"
    /\ ReturnErr(b)
    /\ UNCHANGED <<overlayVars, now, storeVars, runtimeVars, second, builds, lastGood>>

\* save_plan: create_dir_all(<profile>-latest), write runtime_plan.json
SavePlanDir(dir) == HardLink(dir, PlanName, PlanJson)

\* save_plan succeeded: the Complete report, Ok(success=true)
SavePlanOk(b) ==
    /\ pc[b] = "saveplan"
    /\ latest' = SavePlanDir(latest)
    /\ lastGood' = latest'
    /\ pc' = [pc EXCEPT ![b] = "done"]
    /\ DropLocals(b)
    /\ Report(b, "Complete", TRUE)
    /\ UNCHANGED <<overlayVars, now, storeVars, staging, second, builds>>

SavePlanFail(b) ==
    /\ pc[b] = "saveplan"
    /\ ReturnErr(b)
    /\ UNCHANGED <<overlayVars, now, storeVars, runtimeVars, second, builds, lastGood>>

\* cleanup_temp_runtimes: remove_dir_all on every *-tmp directory; a failed
\* removal is logged and the directory stays
\* a cleanup that walks every entry of runtimes, <profile>-latest included
CleanupEveryRuntime ==
    /\ \E t \in Clock : staging[t].exists
    /\ staging' = [t \in Clock |-> NoDir]
    /\ latest' = NoDir
    /\ UNCHANGED <<overlayVars, now, storeVars, buildVars>>

CleanedStaging(keep) == [t \in Clock |-> IF t \in keep THEN staging[t] ELSE NoDir]

CleanupTempRuntimes ==
    /\ \E t \in Clock : staging[t].exists
    /\ \E keep \in SUBSET {t \in Clock : staging[t].exists} :
          /\ keep # {t \in Clock : staging[t].exists}
          /\ staging' = CleanedStaging(keep)
    /\ UNCHANGED <<overlayVars, now, storeVars, latest, buildVars>>

Tick ==
    /\ now < MaxClock
    /\ now' = now + 1
    /\ UNCHANGED <<overlayVars, storeVars, runtimeVars, buildVars>>

BuildStep(b) ==
    \/ StartBuild(b)
    \/ PreflightFail(b)
    \/ PreflightOk(b)
    \/ CreateTempDir(b)
    \/ CreateTempFail(b)
    \/ \E e \in plan[b] : LinkBaseFile(b, e)
    \/ LinkBaseFail(b)
    \/ LinkBaseDone(b)
    \/ \E e \in plan[b] : OverlayFile(b, e)
    \/ OverlayFail(b)
    \/ OverlayDone(b)
    \/ FinalizeCheck(b)
    \/ \E n \in DirNames : RemoveLatestEntry(b, n)
    \/ RemoveLatestDir(b)
    \/ RemoveLatestFail(b)
    \/ RenameStaging(b)
    \/ RenameFail(b)
    \/ SavePlanOk(b)
    \/ SavePlanFail(b)

\* ------------------------------------------------- workspace normalizer
\* ensure_blob: the blob store after `if blob_path.exists() {return}; fs::copy`
EnsureBlob(f) ==
    IF BlobExists(HashFile(f)) THEN blobs
    ELSE [blobs EXCEPT ![HashFile(f)] = Content(f)]

\* normalize_file's check: the file is the same inode as the blob of its hash
AlreadyNormalized(f) == f.kind = "blob" /\ f.id = HashFile(f)

\* normalize_file on an existing file, every step succeeding: ensure_blob,
\* add_ref, remove_file, link_blob_to
NormalizeFile(p, r) ==
    /\ ws[p][r] # NoFile
    /\ LET f == ws[p][r]
           d == HashFile(f)
       IN  /\ blobs' = IF AlreadyNormalized(f) THEN blobs ELSE EnsureBlob(f)
           /\ index' = AddRef(index, d, p, r)
           /\ SaveIndex
           /\ ws' = [ws EXCEPT ![p][r] = BlobFile(d)]
    /\ UNCHANGED <<overlayVars, now, writes, txn, acked, watchVars, runtimeVars, buildVars>>

\* handle_file_deletion: find_blob_by_reference, then remove_ref; the blob
\* file is not touched
HandleFileDeletion(p, r) ==
    /\ ws[p][r] = NoFile
    /\ \E d \in FoundHashes(index, p, r) : index' = RemoveRef(index, d, p, r)
    /\ SaveIndex
    /\ UNCHANGED <<overlayVars, now, ws, blobs, writes, txn, acked, watchVars, runtimeVars, buildVars>>

\* the blob store and the workspaces after fs::remove_file of the blobs in
\* gone: the inode lives on in the workspace links, detached from the store
BlobsWithout(gone) == [d \in Digests |-> IF d \in gone THEN "none" ELSE blobs[d]]
Unlinked(gone) ==
    [p \in Profiles |-> [r \in WsPaths |->
        IF ws[p][r].kind = "blob" /\ ws[p][r].id \in gone
        THEN OrphanFile(ws[p][r].id) ELSE ws[p][r]]]

\* remove_existing_ref(p, r): retain, drop emptied entries, remove_file of
\* their blobs (a failure is only warned about), then save_index
RemoveExistingRef(p, r) ==
    /\ FoundHashes(index, p, r) # {}
    /\ \E gone \in SUBSET {d \in EntriesToRemove(index, p, r) : BlobExists(d)} :
          /\ blobs' = BlobsWithout(gone)
          /\ ws' = Unlinked(gone)
    /\ index' = RemoveExistingRefIndex(index, p, r)
    /\ SaveIndex
    /\ UNCHANGED <<overlayVars, now, writes, txn, acked, watchVars, runtimeVars, buildVars>>

\* remove_existing_ref(p, r) when the final save_index returns Err
RemoveExistingRefSaveFail(p, r) ==
    /\ FoundHashes(index, p, r) # {}
    /\ \E gone \in SUBSET {d \in EntriesToRemove(index, p, r) : BlobExists(d)} :
          /\ blobs' = BlobsWithout(gone)
          /\ ws' = Unlinked(gone)
    /\ UNCHANGED <<overlayVars, now, index, indexFile, writes, txn, acked, watchVars, runtimeVars, buildVars>>

\* garbage_collect_blob(d) returning Ok(true); with an index entry for d, or
\* without a blob file, it returns Ok(false) and changes nothing
GarbageCollectBlob(d) ==
    /\ d \notin DOMAIN index
    /\ BlobExists(d)
    /\ blobs' = BlobsWithout({d})
    /\ ws' = Unlinked({d})
    /\ UNCHANGED <<overlayVars, now, index, indexFile, writes, txn, acked, watchVars, runtimeVars, buildVars>>

\* the user (or a mod installer) writes a new file into the workspace
UserWrite(p, r, d) ==
    /\ writes < MaxWrites
    /\ writes' = writes + 1
    /\ ws' = [ws EXCEPT ![p][r] = RawFile(d)]
    /\ UNCHANGED <<overlayVars, now, blobs, index, indexFile, txn, acked, watchVars, runtimeVars, buildVars>>

\* the user deletes a workspace file
UserDelete(p, r) ==
    /\ ws[p][r] # NoFile
    /\ ws' = [ws EXCEPT ![p][r] = NoFile]
    /\ UNCHANGED <<overlayVars, now, blobs, index, indexFile, writes, txn, acked, watchVars, runtimeVars, buildVars>>

\* the same write, in runs of the blob store alone
StoreWrite(p, r, d) ==
    /\ writes < MaxStoreWrites
    /\ writes' = writes + 1
    /\ ws' = [ws EXCEPT ![p][r] = RawFile(d)]
    /\ UNCHANGED <<overlayVars, now, blobs, index, indexFile, txn, acked, watchVars, runtimeVars, buildVars>>

\* ------------------------------------------- index calls of two threads
\* start_watching gives every profile a thread with a BlobCache of its own
\* on the one cache directory; each index call is load_index, a change of
\* the loaded copy, save_index, and nothing orders the calls of two threads.
Idle == [at |-> "idle", op |-> "none", d |-> "none", r |-> "none",
         loaded |-> EmptyIndex, calls |-> 0]
Return(w) == [Idle EXCEPT !.calls = txn[w].calls]

\* load_index at the head of add_ref / remove_ref / remove_existing_ref
LoadIndex(w, op, d, r) ==
    /\ txn[w].at = "idle"
    /\ txn[w].calls < MaxCalls
    /\ txn' = [txn EXCEPT ![w] = [at |-> "loaded", op |-> op, d |-> d, r |-> r,
                                  loaded |-> index, calls |-> txn[w].calls + 1]]
    /\ UNCHANGED <<overlayVars, now, ws, blobs, index, indexFile, writes, acked, watchVars, runtimeVars, buildVars>>

\* add_ref after its load: push and save_index unless the reference is there
AddRefSave(w) ==
    /\ txn[w].at = "loaded" /\ txn[w].op = "add_ref"
    /\ index' = IF HasRef(txn[w].loaded, txn[w].d, w, txn[w].r) THEN index
                ELSE AddRef(txn[w].loaded, txn[w].d, w, txn[w].r)
    /\ SaveIndex
    /\ acked' = acked \cup {<<txn[w].d, w, txn[w].r>>}
    /\ txn' = [txn EXCEPT ![w] = Return(w)]
    /\ UNCHANGED <<overlayVars, now, ws, blobs, writes, watchVars, runtimeVars, buildVars>>

\* remove_ref after its load: retain, drop the emptied entry, save_index
RemoveRefSave(w) ==
    /\ txn[w].at = "loaded" /\ txn[w].op = "remove_ref"
    /\ index' = RemoveRef(txn[w].loaded, txn[w].d, w, txn[w].r)
    /\ SaveIndex
    /\ acked' = acked \ {<<txn[w].d, w, txn[w].r>>}
    /\ txn' = [txn EXCEPT ![w] = Return(w)]
    /\ UNCHANGED <<overlayVars, now, ws, blobs, writes, watchVars, runtimeVars, buildVars>>

\* remove_existing_ref after its load; no blob file exists in these runs
RemoveExistingRefSave(w) ==
    /\ txn[w].at = "loaded" /\ txn[w].op = "remove_existing_ref"
    /\ index' = RemoveExistingRefIndex(txn[w].loaded, w, txn[w].r)
    /\ SaveIndex
    /\ acked' = {a \in acked : ~(a[2] = w /\ a[3] = txn[w].r)}
    /\ txn' = [txn EXCEPT ![w] = Return(w)]
    /\ UNCHANGED <<overlayVars, now, ws, blobs, writes, watchVars, runtimeVars, buildVars>>

IndexCall(w) ==
    \/ \E d \in Digests, r \in WsPaths : LoadIndex(w, "add_ref", d, r)
    \/ \E d \in Digests, r \in WsPaths : LoadIndex(w, "remove_ref", d, r)
    \/ \E r \in WsPaths : LoadIndex(w, "remove_existing_ref", "none", r)
    \/ AddRefSave(w)
    \/ RemoveRefSave(w)
    \/ RemoveExistingRefSave(w)

\* ------------------------------------------------ ensure_blob, in steps
\* ensure_blob(file r of w's workspace): hash_file reads the file
EnsureBlobHash(w, r) ==
    /\ txn[w].at = "idle"
    /\ txn[w].calls < MaxCalls
    /\ ws[w][r] # NoFile
    /\ txn' = [txn EXCEPT ![w] = [at |-> "hashed", op |-> "ensure_blob",
                                  d |-> HashFile(ws[w][r]), r |-> r,
                                  loaded |-> EmptyIndex, calls |-> txn[w].calls + 1]]
    /\ UNCHANGED <<overlayVars, now, ws, blobs, index, indexFile, writes, acked, watchVars, runtimeVars, buildVars>>

\* ... then `if blob_path.exists() {return}`, else fs::copy reads the file again
EnsureBlobCopy(w) ==
    /\ txn[w].at = "hashed"
    /\ blobs' = IF BlobExists(txn[w].d) \/ ws[w][txn[w].r] = NoFile THEN blobs
                ELSE [blobs EXCEPT ![txn[w].d] = Content(ws[w][txn[w].r])]
    /\ txn' = [txn EXCEPT ![w] = Return(w)]
    /\ UNCHANGED <<overlayVars, now, ws, index, indexFile, writes, acked, watchVars, runtimeVars, buildVars>>

\* ... or fs::copy returns Err part-way: what it wrote stays at blob_path
EnsureBlobCopyInterrupted(w) ==
    /\ txn[w].at = "hashed"
    /\ ~BlobExists(txn[w].d)
    /\ ws[w][txn[w].r] # NoFile
    /\ blobs' = [blobs EXCEPT ![txn[w].d] = "partial"]
    /\ txn' = [txn EXCEPT ![w] = Return(w)]
    /\ UNCHANGED <<overlayVars, now, ws, index, indexFile, writes, acked, watchVars, runtimeVars, buildVars>>

\* ------------------------------------- index calls, one after the other
Between(w) == txn[w].at \in {"idle", "ok", "err"}
Returns(w, how) == [txn[w] EXCEPT !.at = how]
IndexOps == {"load_index", "add_ref", "remove_ref", "remove_existing_ref",
             "garbage_collect_blob", "find_blob_hash_for_file"}

\* thread w enters an index call: what load_index gave it, and the call
Called(w, op, d, r) ==
    [at |-> IF LoadIndexResult(indexFile, index).ok THEN "idle" ELSE "err",
     op |-> op, d |-> d, r |-> r,
     loaded |-> LoadIndexResult(indexFile, index).refs,
     calls |-> txn[w].calls + 1]

\* `let mut index = self.load_index()?;` returning the Err of load_index
LoadFails(w, op, d, r) ==
    /\ ~LoadIndexResult(indexFile, index).ok
    /\ txn' = [txn EXCEPT ![w] = Called(w, op, d, r)]
    /\ UNCHANGED <<ws, blobs, index, indexFile>>

\* a whole add_ref(d, w, r) of thread w; txn[w] keeps the call and the index
\* it loaded
ApiAddRef(w, d, r) ==
    /\ Between(w)
    /\ txn[w].calls < MaxCalls
    /\ LET loaded == LoadIndexResult(indexFile, index) IN
       \/ LoadFails(w, "add_ref", d, r)
       \/ /\ loaded.ok
          /\ index' = AddRef(loaded.refs, d, w, r)
          /\ indexFile' = IF HasRef(loaded.refs, d, w, r) THEN indexFile ELSE "json"
          /\ txn' = [txn EXCEPT ![w] = Called(w, "add_ref", d, r)]
          /\ UNCHANGED <<ws, blobs>>
    /\ UNCHANGED <<overlayVars, now, writes, acked, watchVars, runtimeVars, buildVars>>

\* a whole remove_ref(d, w, r)
ApiRemoveRef(w, d, r) ==
    /\ Between(w)
    /\ txn[w].calls < MaxCalls
    /\ LET loaded == LoadIndexResult(indexFile, index) IN
       \/ LoadFails(w, "remove_ref", d, r)
       \/ /\ loaded.ok
          /\ index' = RemoveRef(loaded.refs, d, w, r)
          /\ SaveIndex
          /\ txn' = [txn EXCEPT ![w] = Called(w, "remove_ref", d, r)]
          /\ UNCHANGED <<ws, blobs>>
    /\ UNCHANGED <<overlayVars, now, writes, acked, watchVars, runtimeVars, buildVars>>

\* a whole remove_existing_ref(w, r)
ApiRemoveExistingRef(w, r) ==
    /\ Between(w)
    /\ txn[w].calls < MaxCalls
    /\ LET loaded == LoadIndexResult(indexFile, index) IN
       \/ LoadFails(w, "remove_existing_ref", "none", r)
       \/ /\ loaded.ok
          /\ \E gone \in SUBSET {d \in EntriesToRemove(loaded.refs, w, r) : BlobExists(d)} :
                /\ blobs' = BlobsWithout(gone)
                /\ ws' = Unlinked(gone)
          /\ index' = RemoveExistingRefIndex(loaded.refs, w, r)
          /\ SaveIndex
          /\ txn' = [txn EXCEPT ![w] = Called(w, "remove_existing_ref", "none", r)]
    /\ UNCHANGED <<overlayVars, now, writes, acked, watchVars, runtimeVars, buildVars>>

\* a whole garbage_collect_blob(d): the blob file goes when the loaded index
\* has no key d and the file exists
ApiGarbageCollectBlob(w, d) ==
    /\ Between(w)
    /\ txn[w].calls < MaxCalls
    /\ LET loaded == LoadIndexResult(indexFile, index) IN
       \/ LoadFails(w, "garbage_collect_blob", d, "none")
       \/ /\ loaded.ok
          /\ IF d \notin DOMAIN loaded.refs /\ BlobExists(d)
             THEN blobs' = BlobsWithout({d}) /\ ws' = Unlinked({d})
             ELSE UNCHANGED <<ws, blobs>>
          /\ txn' = [txn EXCEPT ![w] = Called(w, "garbage_collect_blob", d, "none")]
          /\ UNCHANGED <<index, indexFile>>
    /\ UNCHANGED <<overlayVars, now, writes, acked, watchVars, runtimeVars, buildVars>>

\* load_index alone, and find_blob_hash_for_file(w, r), which only read
ApiRead(w, op, r) ==
    /\ Between(w)
    /\ txn[w].calls < MaxCalls
    /\ txn' = [txn EXCEPT ![w] = Called(w, op, "none", r)]
    /\ UNCHANGED <<overlayVars, now, ws, blobs, index, indexFile, writes, acked, watchVars,
                   runtimeVars, buildVars>>

\* index.json is left unparsable (a save_index whose fs::write was cut short,
\* an edit by hand), or is deleted
IndexCorrupted ==
    /\ indexFile = "json"
    /\ indexFile' = "corrupt"
    /\ UNCHANGED <<overlayVars, now, ws, blobs, index, writes, txn, acked, watchVars,
                   runtimeVars, buildVars>>
IndexDeleted ==
    /\ indexFile \in {"json", "corrupt"}
    /\ indexFile' = "missing"
    /\ UNCHANGED <<overlayVars, now, ws, blobs, index, writes, txn, acked, watchVars,
                   runtimeVars, buildVars>>

\* ----------------------------------------------- link_blob_to, in steps
\* One call at a time: the temp names are fresh UUIDs, calls do not meet.
\* The destination directory is the staging directory of second 1.
LinkDir == 1
PartialFile(d) == [kind |-> "partial", id |-> d]

\* a rename that rewrites dst in place from the temp file
RenameTempInPlace(dir, name) == HardLink(dir, name, PartialFile(dir.files[TmpName].id))

\* fs::rename(temp_path, dst): dst becomes the temp's file, the temp name goes
RenameTemp(dir, name) ==
    [dir EXCEPT !.files[name] = dir.files[TmpName], !.files[TmpName] = NoFile]

\* a refused hard_link answered by copying the blob's bytes to dst
RefusedCopying(dir, name, d) == HardLink(dir, name, RawFile(d))

\* the directory after create_dir_all(parent) and a refused hard_link
Refused(dir, name, d) == [dir EXCEPT !.exists = TRUE]

\* link_blob_to(dst = LinkDir/r, blob d): create_dir_all, hard_link to temp
LinkBlobToHardLink(w, r, d) ==
    /\ Between(w)
    /\ txn[w].calls < MaxCalls
    /\ BlobExists(d)
    /\ staging' = [staging EXCEPT ![LinkDir] = LinkBlobToTempOnly(@, d)]
    /\ txn' = [txn EXCEPT ![w] = [at |-> "linked", op |-> "link_blob_to", d |-> d,
                                  r |-> r, loaded |-> EmptyIndex,
                                  calls |-> txn[w].calls + 1]]
    /\ UNCHANGED <<overlayVars, now, ws, blobs, index, indexFile, writes, acked, watchVars, latest, buildVars>>

\* ... the filesystem refuses the hard_link: Err is returned
LinkBlobToRefused(w, r, d) ==
    /\ Between(w)
    /\ txn[w].calls < MaxCalls
    /\ staging' = [staging EXCEPT ![LinkDir] = Refused(@, r, d)]
    /\ txn' = [txn EXCEPT ![w] = [at |-> "err", op |-> "link_blob_to", d |-> d,
                                  r |-> r, loaded |-> EmptyIndex,
                                  calls |-> txn[w].calls + 1]]
    /\ UNCHANGED <<overlayVars, now, ws, blobs, index, indexFile, writes, acked, watchVars, latest, buildVars>>

\* ... fs::rename(temp, dst) succeeds: Ok
LinkBlobToRename(w) ==
    /\ txn[w].at = "linked"
    /\ staging' = [staging EXCEPT ![LinkDir] = RenameTemp(@, txn[w].r)]
    /\ txn' = [txn EXCEPT ![w] = Returns(w, "ok")]
    /\ UNCHANGED <<overlayVars, now, ws, blobs, index, indexFile, writes, acked, watchVars, latest, buildVars>>

\* ... fs::rename fails: Err, the temp sibling stays
LinkBlobToRenameFail(w) ==
    /\ txn[w].at = "linked"
    /\ txn' = [txn EXCEPT ![w] = Returns(w, "err")]
    /\ UNCHANGED <<overlayVars, now, ws, blobs, index, indexFile, writes, acked, watchVars, runtimeVars, buildVars>>

\* --------------------------------------------- normalize_file, in steps
\* One normalize_file call of w's watcher thread on file r of its workspace;
\* the process can stop between any two steps, and what is on disk stays.
InNormalize(w) ==
    /\ txn[w].op = "normalize_file"
    /\ txn[w].at \in {"hashed", "ensured", "referenced", "removed", "crashed"}

\* exists check, hash_file; a file that is the blob of its hash gets its
\* reference and the call returns. The digests are those of Digests: a file
\* whose content is a truncated copy is not followed further.
NormalizeHash(w, r) ==
    /\ Between(w)
    /\ txn[w].calls < MaxCalls
    /\ ws[w][r] # NoFile
    /\ HashFile(ws[w][r]) \in Digests
    /\ LET f == ws[w][r]
           call == [at |-> "hashed", op |-> "normalize_file", d |-> HashFile(f),
                    r |-> r, loaded |-> EmptyIndex, calls |-> txn[w].calls + 1]
           loaded == LoadIndexResult(indexFile, index)
       IN  IF AlreadyNormalized(f) /\ loaded.ok
           THEN /\ index' = AddRef(loaded.refs, HashFile(f), w, r)
                /\ indexFile' = IF HasRef(loaded.refs, HashFile(f), w, r)
                                THEN indexFile ELSE "json"
                /\ txn' = [txn EXCEPT ![w] = [call EXCEPT !.at = "ok"]]
           ELSE IF AlreadyNormalized(f)
           THEN /\ txn' = [txn EXCEPT ![w] = [call EXCEPT !.at = "err"]]
                /\ UNCHANGED <<index, indexFile>>
           ELSE /\ txn' = [txn EXCEPT ![w] = call]
                /\ UNCHANGED <<index, indexFile>>
    /\ UNCHANGED <<overlayVars, now, ws, blobs, writes, acked, watchVars, runtimeVars, buildVars>>

\* ensure_blob returns Ok: an existing blob path is returned as it is, else
\* the file is copied to it
NormalizeEnsure(w) ==
    /\ txn[w].op = "normalize_file"
    /\ txn[w].at = "hashed"
    /\ blobs' = EnsureBlob(ws[w][txn[w].r])
    /\ txn' = [txn EXCEPT ![w].at = "ensured"]
    /\ UNCHANGED <<overlayVars, now, ws, index, indexFile, writes, acked, watchVars, runtimeVars, buildVars>>

\* ensure_blob's fs::copy returns Err part-way: what it wrote stays at the
\* blob path and normalize_file returns Err
NormalizeEnsureInterrupted(w) ==
    /\ txn[w].op = "normalize_file"
    /\ txn[w].at = "hashed"
    /\ ~BlobExists(txn[w].d)
    /\ blobs' = [blobs EXCEPT ![txn[w].d] = "partial"]
    /\ txn' = [txn EXCEPT ![w] = Returns(w, "err")]
    /\ UNCHANGED <<overlayVars, now, ws, index, indexFile, writes, acked, watchVars, runtimeVars, buildVars>>

\* add_ref(blob, profile, rel_path)
NormalizeAddRef(w) ==
    /\ txn[w].op = "normalize_file"
    /\ txn[w].at = "ensured"
    /\ LET loaded == LoadIndexResult(indexFile, index) IN
       IF loaded.ok
       THEN /\ index' = AddRef(loaded.refs, txn[w].d, w, txn[w].r)
            /\ indexFile' = IF HasRef(loaded.refs, txn[w].d, w, txn[w].r)
                            THEN indexFile ELSE "json"
            /\ txn' = [txn EXCEPT ![w].at = "referenced"]
       ELSE /\ txn' = [txn EXCEPT ![w] = Returns(w, "err")]
            /\ UNCHANGED <<index, indexFile>>
    /\ UNCHANGED <<overlayVars, now, ws, blobs, writes, acked, watchVars, runtimeVars, buildVars>>

\* fs::remove_file(file_path)
NormalizeRemove(w) ==
    /\ txn[w].op = "normalize_file"
    /\ txn[w].at = "referenced"
    /\ ws' = [ws EXCEPT ![w][txn[w].r] = NoFile]
    /\ txn' = [txn EXCEPT ![w].at = "removed"]
    /\ UNCHANGED <<overlayVars, now, blobs, index, indexFile, writes, acked, watchVars, runtimeVars, buildVars>>

\* link_blob_to(file_path, blob) returns Ok
NormalizeLink(w) ==
    /\ txn[w].op = "normalize_file"
    /\ txn[w].at = "removed"
    /\ ws' = [ws EXCEPT ![w][txn[w].r] = BlobFile(txn[w].d)]
    /\ txn' = [txn EXCEPT ![w] = Returns(w, "ok")]
    /\ UNCHANGED <<overlayVars, now, blobs, index, indexFile, writes, acked, watchVars, runtimeVars, buildVars>>

\* link_blob_to returns Err: the workspace file is gone
NormalizeLinkFail(w) ==
    /\ txn[w].op = "normalize_file"
    /\ txn[w].at = "removed"
    /\ txn' = [txn EXCEPT ![w] = Returns(w, "err")]
    /\ UNCHANGED <<overlayVars, now, ws, blobs, index, indexFile, writes, acked, watchVars, runtimeVars, buildVars>>

\* the process stops in the middle of normalize_file
NormalizeCrash(w) ==
    /\ txn[w].op = "normalize_file"
    /\ txn[w].at \in {"hashed", "ensured", "referenced", "removed"}
    /\ txn' = [txn EXCEPT ![w].at = "crashed"]
    /\ UNCHANGED <<overlayVars, now, ws, blobs, index, indexFile, writes, acked, watchVars, runtimeVars, buildVars>>

\* the application is started again and the workspace is watched again
NormalizeRestart(w) ==
    /\ txn[w].at = "crashed"
    /\ txn' = [txn EXCEPT ![w] = Returns(w, "err")]
    /\ UNCHANGED <<overlayVars, now, ws, blobs, index, indexFile, writes, acked, watchVars, runtimeVars, buildVars>>

\* a file of w's workspace is written while no normalize_file of w is running
WriteBetween(w, r, d) ==
    /\ Between(w)
    /\ UserWrite(w, r, d)

\* ------------------------------------------------ the debounce thread
\* process_notify_event: the latest event of a path replaces the earlier one
Notify(p, r, kind) == pending' = [pending EXCEPT ![p][r] = kind]

\* a file is written while the workspace is watched
WatchedWrite(p, r, d) ==
    /\ writes < MaxStoreWrites
    /\ writes' = writes + 1
    /\ ws' = [ws EXCEPT ![p][r] = RawFile(d)]
    /\ Notify(p, r, "Modified")
    /\ dropped' = dropped \ {<<p, r>>}
    /\ UNCHANGED <<overlayVars, now, blobs, index, indexFile, txn, acked, debounceVars, runtimeVars, buildVars>>

\* a file is deleted while the workspace is watched
WatchedDelete(p, r) ==
    /\ ws[p][r] # NoFile
    /\ ws' = [ws EXCEPT ![p][r] = NoFile]
    /\ Notify(p, r, "Deleted")
    /\ dropped' = dropped \ {<<p, r>>}
    /\ UNCHANGED <<overlayVars, now, blobs, index, indexFile, writes, txn, acked, debounceVars, runtimeVars, buildVars>>

\* a flush that takes a Created/Modified change off the map and leaves the
\* file as it is
FlushNormalizeSkipping(p, r) ==
    /\ pending[p][r] = "Modified"
    /\ Notify(p, r, "none")
    /\ UNCHANGED <<overlayVars, now, ws, blobs, index, indexFile, writes, txn, acked, dropped, debounceVars, runtimeVars, buildVars>>

\* the flush reaches a Created/Modified change and normalize_file returns Ok:
\* a missing file is skipped, a normalized one only gets its reference, any
\* other is replaced by a link, whose remove_file and rename are new events
FlushNormalize(p, r) ==
    /\ pending[p][r] = "Modified"
    /\ LET f == ws[p][r] IN
       IF f = NoFile
       THEN /\ Notify(p, r, "none")
            /\ UNCHANGED <<ws, blobs, index, indexFile>>
       ELSE IF AlreadyNormalized(f)
       THEN /\ index' = AddRef(index, HashFile(f), p, r)
            /\ SaveIndex
            /\ Notify(p, r, "none")
            /\ UNCHANGED <<ws, blobs>>
       ELSE /\ blobs' = EnsureBlob(f)
            /\ index' = AddRef(index, HashFile(f), p, r)
            /\ SaveIndex
            /\ ws' = [ws EXCEPT ![p][r] = BlobFile(HashFile(f))]
            /\ Notify(p, r, "Modified")
    /\ UNCHANGED <<overlayVars, now, writes, txn, acked, dropped, debounceVars, runtimeVars, buildVars>>

\* normalize_file returns Err from hash_file or ensure_blob: process_file_changes
\* logs it and goes on, the change is gone from pending_changes
FlushNormalizeFail(p, r) ==
    /\ pending[p][r] = "Modified"
    /\ ws[p][r] # NoFile
    /\ ~AlreadyNormalized(ws[p][r])
    /\ Notify(p, r, "none")
    /\ dropped' = dropped \cup {<<p, r>>}
    /\ UNCHANGED <<overlayVars, now, ws, blobs, index, indexFile, writes, txn, acked, debounceVars, runtimeVars, buildVars>>

\* normalize_file returns Err from link_blob_to, after remove_file
FlushNormalizeLinkFail(p, r) ==
    /\ pending[p][r] = "Modified"
    /\ ws[p][r] # NoFile
    /\ ~AlreadyNormalized(ws[p][r])
    /\ blobs' = EnsureBlob(ws[p][r])
    /\ index' = AddRef(index, HashFile(ws[p][r]), p, r)
    /\ SaveIndex
    /\ ws' = [ws EXCEPT ![p][r] = NoFile]
    /\ Notify(p, r, "Deleted")
    /\ dropped' = dropped \cup {<<p, r>>}
    /\ UNCHANGED <<overlayVars, now, writes, txn, acked, debounceVars, runtimeVars, buildVars>>

\* the flush reaches a Deleted change: handle_file_deletion
FlushDeletion(p, r) ==
    /\ pending[p][r] = "Deleted"
    /\ IF FoundHashes(index, p, r) = {} THEN UNCHANGED <<index, indexFile>>
       ELSE /\ \E d \in FoundHashes(index, p, r) : index' = RemoveRef(index, d, p, r)
            /\ SaveIndex
    /\ Notify(p, r, "none")
    /\ UNCHANGED <<overlayVars, now, ws, blobs, writes, txn, acked, dropped, debounceVars, runtimeVars, buildVars>>

\* debounce_handler's flush of p's pending_changes, one change at a time
Flush(p) ==
    \/ \E r \in WsPaths : FlushNormalize(p, r)
    \/ \E r \in WsPaths : FlushNormalizeFail(p, r)
    \/ \E r \in WsPaths : FlushNormalizeLinkFail(p, r)
    \/ \E r \in WsPaths : FlushDeletion(p, r)

\* the workspace of p is written to and its watcher normalizes the files
\* ------------------------------------------- debounce_handler, in steps
\* The watcher thread of one profile: recv_timeout(50 ms) returns an event,
\* a timeout or a disconnect; a timeout with a non-empty map and 200 ms since
\* last_activity takes the map as a batch and processes it change by change.
QuietTicks == 4
NoPending == [r \in WsPaths |-> "none"]
Change(r, kind) == [path |-> r, kind |-> kind]
Min(a, b) == IF a < b THEN a ELSE b

\* pending_changes.values().cloned().collect(): the values in some order
Orderings(S) ==
    {s \in [1..Cardinality(S) -> S] : \A x \in S : \E i \in 1..Cardinality(S) : s[i] = x}
Collect(pend) ==
    {[i \in DOMAIN o |-> Change(o[i], pend[o[i]])] :
        o \in Orderings({r \in WsPaths : pend[r] # "none"})}

\* the notify watcher sends an event for r while it exists
Send(p, r, kind) ==
    chan' = [chan EXCEPT ![p] = IF alive[p] = "watching" THEN Append(@, Change(r, kind)) ELSE @]

\* a file of the watched workspace is written
FsWrite(p, r, d) ==
    /\ writes < MaxEvents
    /\ writes' = writes + 1
    /\ ws' = [ws EXCEPT ![p][r] = RawFile(d)]
    /\ Send(p, r, "Modified")
    /\ norms' = [norms EXCEPT ![p][r] = 0]
    /\ dropped' = dropped \ {<<p, r>>}
    /\ UNCHANGED <<blobs, index, indexFile, pending, batch, quiet, last, alive, overlayVars, now, txn, acked, runtimeVars, buildVars>>

\* a file of the watched workspace is deleted
FsDelete(p, r) ==
    /\ writes < MaxEvents
    /\ ws[p][r] # NoFile
    /\ writes' = writes + 1
    /\ ws' = [ws EXCEPT ![p][r] = NoFile]
    /\ Send(p, r, "Deleted")
    /\ norms' = [norms EXCEPT ![p][r] = 0]
    /\ dropped' = dropped \ {<<p, r>>}
    /\ UNCHANGED <<blobs, index, indexFile, pending, batch, quiet, last, alive, overlayVars, now, txn, acked, runtimeVars, buildVars>>

\* recv_timeout returns Ok(Ok(event)): last_activity = now, the event is
\* inserted into pending_changes
Receive(p) ==
    /\ alive[p] # "exited"
    /\ batch[p] = <<>>
    /\ chan[p] # <<>>
    /\ Notify(p, Head(chan[p]).path, Head(chan[p]).kind)
    /\ last' = [last EXCEPT ![p][Head(chan[p]).path] = Head(chan[p]).kind]
    /\ quiet' = [quiet EXCEPT ![p] = 0]
    /\ chan' = [chan EXCEPT ![p] = Tail(@)]
    /\ UNCHANGED <<ws, blobs, index, indexFile, writes, dropped, batch, norms, alive, overlayVars, now, txn, acked, runtimeVars, buildVars>>

\* a timeout arm that flushes whatever is pending
TimeoutEager(p) ==
    /\ alive[p] = "watching"
    /\ batch[p] = <<>>
    /\ chan[p] = <<>>
    /\ quiet' = [quiet EXCEPT ![p] = Min(@ + 1, QuietTicks)]
    /\ IF pending[p] # NoPending
       THEN /\ batch' \in {[batch EXCEPT ![p] = c] : c \in Collect(pending[p])}
            /\ pending' = [pending EXCEPT ![p] = NoPending]
            /\ last' = [last EXCEPT ![p] = NoPending]
       ELSE UNCHANGED <<pending, batch, last>>
    /\ UNCHANGED <<ws, blobs, index, indexFile, writes, dropped, chan, norms, alive, overlayVars, now, txn, acked, runtimeVars, buildVars>>

\* recv_timeout returns Err(Timeout): 50 ms without an event; with a
\* non-empty map and last_activity.elapsed() >= 200 ms the map is collected
\* into the batch and cleared
Timeout(p) ==
    /\ alive[p] = "watching"
    /\ batch[p] = <<>>
    /\ chan[p] = <<>>
    /\ quiet' = [quiet EXCEPT ![p] = Min(@ + 1, QuietTicks)]
    /\ IF pending[p] # NoPending /\ quiet'[p] >= QuietTicks
       THEN /\ batch' \in {[batch EXCEPT ![p] = c] : c \in Collect(pending[p])}
            /\ pending' = [pending EXCEPT ![p] = NoPending]
            /\ last' = [last EXCEPT ![p] = NoPending]
       ELSE UNCHANGED <<pending, batch, last>>
    /\ UNCHANGED <<ws, blobs, index, indexFile, writes, dropped, chan, norms, alive, overlayVars, now, txn, acked, runtimeVars, buildVars>>

\* process_file_changes reaches a Created/Modified change and normalize_file
\* returns Ok: a missing file is skipped, a normalized one only gets its
\* reference, any other is replaced by a link, which the watcher reports
ProcessNormalize(p) ==
    /\ batch[p] # <<>>
    /\ Head(batch[p]).kind = "Modified"
    /\ LET r == Head(batch[p]).path
           f == ws[p][r]
       IN  IF f = NoFile
           THEN UNCHANGED <<ws, blobs, index, indexFile, chan, norms>>
           ELSE IF AlreadyNormalized(f)
           THEN /\ index' = AddRef(index, HashFile(f), p, r)
                /\ SaveIndex
                /\ UNCHANGED <<ws, blobs, chan, norms>>
           ELSE /\ blobs' = EnsureBlob(f)
                /\ index' = AddRef(index, HashFile(f), p, r)
                /\ SaveIndex
                /\ ws' = [ws EXCEPT ![p][r] = BlobFile(HashFile(f))]
                /\ norms' = [norms EXCEPT ![p][r] = @ + 1]
                /\ Send(p, r, "Modified")
    /\ dropped' = dropped \ {<<p, Head(batch[p]).path>>}
    /\ batch' = [batch EXCEPT ![p] = Tail(@)]
    /\ UNCHANGED <<writes, pending, quiet, last, alive, overlayVars, now, txn, acked, runtimeVars, buildVars>>

\* a failed normalize_file that ends process_file_changes
ProcessNormalizeFailAborting(p) ==
    /\ batch[p] # <<>>
    /\ Head(batch[p]).kind = "Modified"
    /\ ws[p][Head(batch[p]).path] # NoFile
    /\ ~AlreadyNormalized(ws[p][Head(batch[p]).path])
    /\ dropped' = dropped \cup {<<p, Head(batch[p]).path>>}
    /\ \E copied \in BOOLEAN :
          blobs' = IF copied THEN EnsureBlob(ws[p][Head(batch[p]).path]) ELSE blobs
    /\ batch' = [batch EXCEPT ![p] = <<>>]
    /\ UNCHANGED <<ws, index, indexFile, writes, pending, chan, quiet, last, norms, alive, overlayVars, now, txn, acked, runtimeVars, buildVars>>

\* normalize_file returns Err from hash_file or ensure_blob, or from add_ref
\* after the blob was copied: the error is logged and the loop goes on with
\* the next change
ProcessNormalizeFail(p) ==
    /\ batch[p] # <<>>
    /\ Head(batch[p]).kind = "Modified"
    /\ ws[p][Head(batch[p]).path] # NoFile
    /\ ~AlreadyNormalized(ws[p][Head(batch[p]).path])
    /\ dropped' = dropped \cup {<<p, Head(batch[p]).path>>}
    /\ \E copied \in BOOLEAN :
          blobs' = IF copied THEN EnsureBlob(ws[p][Head(batch[p]).path]) ELSE blobs
    /\ batch' = [batch EXCEPT ![p] = Tail(@)]
    /\ UNCHANGED <<ws, index, indexFile, writes, pending, chan, quiet, last, norms, alive, overlayVars, now, txn, acked, runtimeVars, buildVars>>

\* normalize_file returns Err from link_blob_to, after remove_file
ProcessNormalizeLinkFail(p) ==
    /\ batch[p] # <<>>
    /\ Head(batch[p]).kind = "Modified"
    /\ LET r == Head(batch[p]).path
           f == ws[p][r]
       IN  /\ f # NoFile
           /\ ~AlreadyNormalized(f)
           /\ blobs' = EnsureBlob(f)
           /\ index' = AddRef(index, HashFile(f), p, r)
           /\ SaveIndex
           /\ ws' = [ws EXCEPT ![p][r] = NoFile]
           /\ Send(p, r, "Deleted")
           /\ dropped' = dropped \cup {<<p, r>>}
    /\ batch' = [batch EXCEPT ![p] = Tail(@)]
    /\ UNCHANGED <<writes, pending, quiet, last, norms, alive, overlayVars, now, txn, acked, runtimeVars, buildVars>>

\* process_file_changes reaches a Deleted change: handle_file_deletion
ProcessDeletion(p) ==
    /\ batch[p] # <<>>
    /\ Head(batch[p]).kind = "Deleted"
    /\ LET r == Head(batch[p]).path IN
       IF FoundHashes(index, p, r) = {} THEN UNCHANGED <<index, indexFile>>
       ELSE /\ \E d \in FoundHashes(index, p, r) : index' = RemoveRef(index, d, p, r)
            /\ SaveIndex
    /\ batch' = [batch EXCEPT ![p] = Tail(@)]
    /\ UNCHANGED <<ws, blobs, writes, pending, dropped, chan, quiet, last, norms, alive, overlayVars, now, txn, acked, runtimeVars, buildVars>>

\* stop_watching: the watcher and event_sender are dropped
StopWatching(p) ==
    /\ alive[p] = "watching"
    /\ alive' = [alive EXCEPT ![p] = "stopped"]
    /\ UNCHANGED <<ws, blobs, index, indexFile, writes, pending, dropped, chan, batch, quiet, last, norms, overlayVars, now, txn, acked, runtimeVars, buildVars>>

\* recv_timeout returns Err(Disconnected): the loop breaks, pending_changes
\* is dropped with the thread
Disconnected(p) ==
    /\ alive[p] = "stopped"
    /\ batch[p] = <<>>
    /\ chan[p] = <<>>
    /\ alive' = [alive EXCEPT ![p] = "exited"]
    /\ UNCHANGED <<ws, blobs, index, indexFile, writes, pending, dropped, chan, batch, quiet, last, norms, overlayVars, now, txn, acked, runtimeVars, buildVars>>

\* one step of p's debounce thread
Worker(p) ==
    \/ Receive(p)
    \/ Timeout(p)
    \/ ProcessNormalize(p)
    \/ ProcessNormalizeFail(p)
    \/ ProcessNormalizeLinkFail(p)
    \/ ProcessDeletion(p)
    \/ Disconnected(p)

\* ----------------------------------------------------------- overlay view
\* Paths are sequences of names, <<>> the game root. The base installation
\* has the files a, b and dir/f; dir is the one directory.
TombName == ".deltaruntime_tombstones.json"
ReservedNames == {TombName, ".deltaruntime_cache"}
Root == <<>>
OvPaths == {<<"a">>, <<"b">>, <<"c">>, <<"dir">>, <<"dir", "f">>, <<"dir", "g">>,
            <<TombName>>, <<".deltaruntime_cache">>}
BaseTree == {<<"a">>, <<"b">>, <<"dir">>, <<"dir", "f">>}
IsDirPath(p) == p \in {Root, <<"dir">>}
ParentOf(p) == SubSeq(p, 1, Len(p) - 1)
NameOf(p) == p[Len(p)]
Ancestors(p) == {SubSeq(p, 1, k) : k \in 1..(Len(p) - 1)}
Descendants(p) == {q \in OvPaths : p \in Ancestors(q)}

\* a check that finds no tombstone
IsTombstonedNever(t, p) == FALSE
\* is_tombstoned: the path has a tombstone, or a directory above it has
IsTombstoned(t, p) == p \in t \/ \E a \in Ancestors(p) : a \in t

\* build_virtual_node(p, false): the node, or the Err it returns
NoNode(p) == [ok |-> FALSE, path |-> p, source |-> "none", writable |-> FALSE,
              is_directory |-> FALSE]
Node(p, source, writable) ==
    [ok |-> TRUE, path |-> p, source |-> source, writable |-> writable,
     is_directory |-> IsDirPath(p)]
BuildVirtualNode(w, t, p) ==
    LET base_exists == p = Root \/ p \in BaseTree
        workspace_exists == p = Root \/ p \in w
    IN  IF IsTombstoned(t, p) /\ ~workspace_exists THEN NoNode(p)
        ELSE IF workspace_exists /\ base_exists THEN Node(p, "WorkspaceOverride", TRUE)
        ELSE IF workspace_exists THEN Node(p, "Workspace", TRUE)
        ELSE IF base_exists /\ ~IsTombstoned(t, p) THEN Node(p, "Base", FALSE)
        ELSE NoNode(p)

\* build_virtual_children(dir): the workspace entries but the tombstones
\* file, then the base entries whose name was not seen, none of them
\* tombstoned
BuildVirtualChildren(w, t, dir) ==
    LET fromWorkspace == {p \in w : /\ ParentOf(p) = dir
                                    /\ NameOf(p) # TombName
                                    /\ ~IsTombstoned(t, p)
                                    /\ BuildVirtualNode(w, t, p).ok}
        fromBase == {p \in BaseTree : /\ ParentOf(p) = dir
                                      /\ p \notin fromWorkspace
                                      /\ ~IsTombstoned(t, p)
                                      /\ BuildVirtualNode(w, t, p).ok}
    IN  {BuildVirtualNode(w, t, p) : p \in fromWorkspace \cup fromBase}

\* get_virtual_tree(Some(dir)).children; None when dir gives no directory node
GetVirtualTree(w, t, dir) ==
    IF BuildVirtualNode(w, t, dir).ok /\ IsDirPath(dir)
    THEN BuildVirtualChildren(w, t, dir) ELSE {}

\* p is listed among the children of its parent
Appears(w, t, p) == \E n \in GetVirtualTree(w, t, ParentOf(p)) : n.path = p
\* p is in the overlay view: listed, under directories that are listed
Visible(w, t, p) == \A q \in Ancestors(p) \cup {p} : Appears(w, t, q)

\* compute_plan's traversal of get_virtual_tree(None) on a VirtualFileSystem
\* it has just made: the root's children carry `children: None`, so the
\* entries are the files among them, rel_path their name
TraverseAndPlan(w) ==
    {n.path : n \in {m \in GetVirtualTree(w, {}, Root) : ~m.is_directory}}

\* save_tombstones: fs::write of the tombstones file in the workspace
SaveTombstones(w) == w \cup {<<TombName>>}

\* a file is put into the workspace directory
WriteEntry(p) ==
    /\ ~IsDirPath(p)
    /\ NameOf(p) # TombName
    /\ p \notin wsTree
    /\ wsTree' = wsTree \cup {p} \cup Ancestors(p)
    /\ UNCHANGED <<tombstones, now, storeVars, runtimeVars, buildVars>>

\* copy_to_workspace(p) of a base file: create_dir_all(parent), fs::copy
CopyToWorkspace(p) ==
    /\ p \in BaseTree /\ ~IsDirPath(p)
    /\ p \notin wsTree
    /\ wsTree' = wsTree \cup {p} \cup Ancestors(p)
    /\ UNCHANGED <<tombstones, now, storeVars, runtimeVars, buildVars>>

\* create_tombstone(p): insert, save_tombstones
CreateTombstone(p) ==
    /\ p \notin tombstones
    /\ tombstones' = tombstones \cup {p}
    /\ wsTree' = SaveTombstones(wsTree)
    /\ UNCHANGED <<now, storeVars, runtimeVars, buildVars>>

\* remove_tombstone(p): remove, and save_tombstones when there was one
RemoveTombstone(p) ==
    /\ p \in tombstones
    /\ tombstones' = tombstones \ {p}
    /\ wsTree' = SaveTombstones(wsTree)
    /\ UNCHANGED <<now, storeVars, runtimeVars, buildVars>>

\* delete_virtual_path(p): the workspace entry goes (a directory with all
\* below it), and a path of the base gets a tombstone
DeleteVirtualPath(p) ==
    /\ p \in wsTree \/ p \in BaseTree
    /\ LET left == wsTree \ ({p} \cup Descendants(p)) IN
       IF p \in BaseTree
       THEN /\ tombstones' = tombstones \cup {p}
            /\ wsTree' = SaveTombstones(left)
       ELSE /\ wsTree' = left
            /\ UNCHANGED tombstones
    /\ UNCHANGED <<now, storeVars, runtimeVars, buildVars>>

WorkspaceStep(p) ==
    \/ \E r \in WsPaths, d \in Digests : UserWrite(p, r, d)
    \/ \E r \in WsPaths : NormalizeFile(p, r)

Init ==
    /\ now = 1
    /\ ws = [p \in Profiles |-> [r \in WsPaths |-> NoFile]]
    /\ blobs = [d \in Digests |-> "none"]
    /\ index = EmptyIndex
    /\ indexFile = "missing"
    /\ wsTree = {}
    /\ tombstones = {}
    /\ latest = NoDir
    /\ staging = [t \in Clock |-> NoDir]
    /\ pc = [b \in Builders |-> "idle"]
    /\ plan = [b \in Builders |-> {}]
    /\ tmp = [b \in Builders |-> 0]
    /\ linked = [b \in Builders |-> {}]
    /\ phase = [b \in Builders |-> "none"]
    /\ completed = [b \in Builders |-> FALSE]
    /\ second = [b \in Builders |-> FALSE]
    /\ builds = 0
    /\ writes = 0
    /\ lastGood = NoDir
    /\ txn = [w \in Profiles |-> Idle]
    /\ acked = {}
    /\ pending = [p \in Profiles |-> [r \in WsPaths |-> "none"]]
    /\ dropped = {}
    /\ chan = [p \in Profiles |-> <<>>]
    /\ batch = [p \in Profiles |-> <<>>]
    /\ quiet = [p \in Profiles |-> 0]
    /\ last = [p \in Profiles |-> [r \in WsPaths |-> "none"]]
    /\ norms = [p \in Profiles |-> [r \in WsPaths |-> 0]]
    /\ alive = [p \in Profiles |-> "watching"]

Next ==
    \/ BuildStep(1)
    \/ NoBuildRunning /\ CleanupTempRuntimes
    \/ NoBuildRunning /\ Tick
    \/ NoBuildRunning /\ WorkspaceStep(BuildProfile)

Spec == Init /\ [][Next]_vars

\* build_runtime invocations overlap, and the clock, cleanup_temp_runtimes and
\* the workspace move while they run
NextConc ==
    \/ \E b \in Builders : BuildStep(b)
    \/ CleanupTempRuntimes
    \/ Tick
    \/ NoBuildRunning /\ WorkspaceStep(BuildProfile)

SpecConc == Init /\ [][NextConc]_vars

\* the blob store alone: workspaces written to and normalized, deletions
\* handled, and the reference calls of the store's API
NextStore ==
    \/ \E p \in Profiles, r \in WsPaths, d \in Digests : StoreWrite(p, r, d)
    \/ \E p \in Profiles, r \in WsPaths : UserDelete(p, r)
    \/ \E p \in Profiles, r \in WsPaths : NormalizeFile(p, r)
    \/ \E p \in Profiles, r \in WsPaths : HandleFileDeletion(p, r)
    \/ \E p \in Profiles, r \in WsPaths : RemoveExistingRef(p, r)
    \/ \E p \in Profiles, r \in WsPaths : RemoveExistingRefSaveFail(p, r)
    \/ \E d \in Digests : GarbageCollectBlob(d)

SpecStore == Init /\ [][NextStore]_vars

\* the index under the calls of the watcher threads
NextIndex == \E w \in Profiles : IndexCall(w)

SpecIndex == Init /\ [][NextIndex]_vars

\* watched workspaces: the debounce threads loop for ever, so a pending
\* change is flushed sooner or later
NextWatch ==
    \/ \E p \in Profiles, r \in WsPaths, d \in Digests : WatchedWrite(p, r, d)
    \/ \E p \in Profiles, r \in WsPaths : WatchedDelete(p, r)
    \/ \E p \in Profiles : Flush(p)

SpecWatch == Init /\ [][NextWatch]_vars /\ \A p \in Profiles : WF_vars(Flush(p))

\* ensure_blob calls of the watcher threads while the workspaces are written
NextEnsure ==
    \/ \E p \in Profiles, r \in WsPaths, d \in Digests : StoreWrite(p, r, d)
    \/ \E w \in Profiles, r \in WsPaths : EnsureBlobHash(w, r)
    \/ \E w \in Profiles : EnsureBlobCopy(w)
    \/ \E w \in Profiles : EnsureBlobCopyInterrupted(w)

SpecEnsure == Init /\ [][NextEnsure]_vars

\* link_blob_to calls into one directory, of blobs the normalizer stored
NextLink ==
    \/ \E r \in WsPaths, d \in Digests : StoreWrite(BuildProfile, r, d)
    \/ \E r \in WsPaths : NormalizeFile(BuildProfile, r)
    \/ \E r \in WsPaths, d \in Digests : LinkBlobToHardLink(BuildProfile, r, d)
    \/ \E r \in WsPaths, d \in Digests : LinkBlobToRefused(BuildProfile, r, d)
    \/ LinkBlobToRename(BuildProfile)
    \/ LinkBlobToRenameFail(BuildProfile)

SpecLink == Init /\ [][NextLink]_vars

\* the reference calls of a single controller
NextRefs ==
    \/ \E w \in Profiles, d \in Digests, r \in WsPaths : ApiAddRef(w, d, r)
    \/ \E w \in Profiles, d \in Digests, r \in WsPaths : ApiRemoveRef(w, d, r)
    \/ \E w \in Profiles, r \in WsPaths : ApiRemoveExistingRef(w, r)

SpecRefs == Init /\ [][NextRefs]_vars

\* every call that loads the index, made by one thread, while another
\* thread stores blobs with ensure_blob and index.json can be damaged or
\* deleted between the calls
NextLoad ==
    \/ \E p \in Profiles \ {BuildProfile}, r \in WsPaths, d \in Digests : UserWrite(p, r, d)
    \/ \E p \in Profiles \ {BuildProfile}, r \in WsPaths : EnsureBlobHash(p, r)
    \/ \E p \in Profiles \ {BuildProfile} : EnsureBlobCopy(p)
    \/ \E d \in Digests, r \in WsPaths : ApiAddRef(BuildProfile, d, r)
    \/ \E d \in Digests, r \in WsPaths : ApiRemoveRef(BuildProfile, d, r)
    \/ \E r \in WsPaths : ApiRemoveExistingRef(BuildProfile, r)
    \/ \E d \in Digests : ApiGarbageCollectBlob(BuildProfile, d)
    \/ ApiRead(BuildProfile, "load_index", "none")
    \/ \E r \in WsPaths : ApiRead(BuildProfile, "find_blob_hash_for_file", r)
    \/ IndexCorrupted
    \/ IndexDeleted

SpecLoad == Init /\ [][NextLoad]_vars

\* the overlay operations of one VirtualFileSystem on a workspace that is
\* also written to
NextOverlay ==
    \/ \E p \in OvPaths : WriteEntry(p)
    \/ \E p \in OvPaths : CopyToWorkspace(p)
    \/ \E p \in OvPaths \ {<<n>> : n \in ReservedNames} : CreateTombstone(p)
    \/ \E p \in OvPaths : RemoveTombstone(p)
    \/ \E p \in OvPaths \ {<<n>> : n \in ReservedNames} : DeleteVirtualPath(p)

SpecOverlay == Init /\ [][NextOverlay]_vars

\* normalize_file in steps, with crashes, on the workspace of every profile
NextNorm ==
    \E w \in Profiles :
        \/ \E r \in WsPaths, d \in Digests : WriteBetween(w, r, d)
        \/ \E r \in WsPaths : NormalizeHash(w, r)
        \/ NormalizeEnsure(w)
        \/ NormalizeEnsureInterrupted(w)
        \/ NormalizeAddRef(w)
        \/ NormalizeRemove(w)
        \/ NormalizeLink(w)
        \/ NormalizeLinkFail(w)
        \/ NormalizeCrash(w)
        \/ NormalizeRestart(w)
        \/ IndexDeleted

SpecNorm == Init /\ [][NextNorm]_vars

\* the watcher thread of BuildProfile's workspace, its events and its stop
NextDebounce ==
    \/ \E r \in WsPaths, d \in Digests : FsWrite(BuildProfile, r, d)
    \/ \E r \in WsPaths : FsDelete(BuildProfile, r)
    \/ Worker(BuildProfile)
    \/ StopWatching(BuildProfile)

\* the thread loops for as long as it lives
SpecDebounce == Init /\ [][NextDebounce]_vars /\ WF_vars(Worker(BuildProfile))

\* ------------------------------------------------------------ properties
\* position of a phase in the order build_runtime reports them
PhaseRank == [Preflight |-> 1, CreateTemp |-> 2, LinkBase |-> 3,
              OverlayWorkspace |-> 4, Finalize |-> 5, Complete |-> 6, Failed |-> 6]
Returned(b) == pc[b] \in {"done", "failed", "err"}
PrePublish(b) == pc[b] \in {"preflight", "createtemp", "linkbase", "overlay"}

\* C1: whenever no build is running (so after every build, failed or not),
\* <profile>-latest is absent or exactly what the last successful build left.
C1_LatestAbsentOrLastGood ==
    NoBuildRunning => (latest = NoDir \/ latest = lastGood)

\* C2: every step a build takes before its staging directory is fully
\* populated (Preflight, CreateTemp, LinkBase, OverlayWorkspace, the failing
\* step included) leaves <profile>-latest exactly as it was.
C2_LatestUntouchedBeforePopulated ==
    [][\A b \in Builders : PrePublish(b) => latest' = latest]_vars

\* C2 witness: a build failed in OverlayWorkspace and an earlier build's
\* runtime is still published unchanged.
C2_Witness ==
    /\ pc[1] = "err"
    /\ phase[1] = "OverlayWorkspace"
    /\ latest.exists
    /\ latest = lastGood

\* C3: when build_runtime reports Complete, every plan entry's path in
\* <profile>-latest is the same file as its planned source: the base file for
\* Base, the existing blob of the entry's digest for Blob.
C3_CompleteLinksEveryEntry ==
    [][\A b \in Builders : (pc[b] = "saveplan" /\ pc'[b] = "done") =>
          \A e \in plan[b] :
              /\ latest'.files[e.rel_path] = SourceFile(e)
              /\ e.source = "Blob" => BlobExists(e.digest)]_vars

\* C3 witness: a build completed whose runtime holds a base link and an
\* overridden path linked to the blob.
C3_Witness ==
    /\ pc[1] = "done"
    /\ latest.files["a"] = BaseFile("a")
    /\ latest.files["b"].kind = "blob"

\* C4: after a build reported Complete no *-tmp directory is left.
C4_NoTmpAfterComplete ==
    \A b \in Builders : pc[b] = "done" => \A t \in Clock : ~staging[t].exists

\* C5: a build that returned delivered a last report with completed=true,
\* Complete when it succeeded and Failed otherwise.
C5_TerminalReport ==
    \A b \in Builders : Returned(b) =>
        /\ completed[b]
        /\ phase[b] = (IF pc[b] = "done" THEN "Complete" ELSE "Failed")

\* C6: when a build fails after its staging directory was created, the
\* failing step leaves that directory and the files linked into it in place.
C6_FailedBuildKeepsStaging ==
    [][\A b \in Builders : (tmp[b] # 0 /\ pc[b] # "err" /\ pc'[b] = "err") =>
          /\ staging'[tmp[b]].exists
          /\ \A r \in linked[b] :
                 /\ staging'[tmp[b]].files[r] # NoFile
                 /\ staging'[tmp[b]].files[r] = staging[tmp[b]].files[r]]_vars

\* C7: a build started while another build of the profile is running fails
\* fast: it never links files into the staging directory the other build is
\* using, and never deletes or replaces <profile>-latest.
C7_SecondBuildFailsFast ==
    \A b \in Builders : second[b] =>
        /\ pc[b] \notin {"removing", "saveplan", "done"}
        /\ \A o \in Builders \ {b} :
               (Running(o) /\ tmp[o] # 0 /\ tmp[b] = tmp[o]) => linked[b] = {}

\* C8: a (profile, rel_path) pair is listed under at most one digest.
C8_OneDigestPerPath ==
    \A p \in Profiles, r \in WsPaths : Cardinality(FoundHashes(index, p, r)) <= 1

C10_NoLostUpdate ==
    (\A w \in Profiles : txn[w].at = "idle") =>
        \A d \in Digests, p \in Profiles, r \in WsPaths :
            HasRef(index, d, p, r) <=> <<d, p, r>> \in acked

\* C11: when the normalizer handles the deletion of a workspace file and
\* removes the last reference of a digest, the blob file is deleted; a blob
\* that keeps a reference stays.
C11_DeletionCollectsLastBlob ==
    [][\A p \in Profiles, r \in WsPaths : HandleFileDeletion(p, r) =>
          \A d \in Digests : (HasRef(index, d, p, r) /\ ~HasRef(index', d, p, r)) =>
              /\ RefsOf(index', d) = {} => blobs'[d] = "none"
              /\ RefsOf(index', d) # {} => blobs'[d] = blobs[d]]_vars

\* C12: when a file normalized under digest o is rewritten with other
\* content and normalized again, the reference to the new digest is present
\* and the blob of o is deleted exactly when o had no other reference.
C12_RewriteReplacesOldBlob ==
    [][\A p \in Profiles, r \in WsPaths : NormalizeFile(p, r) =>
          \A o \in Digests \ {HashFile(ws[p][r])} :
              (HasRef(index, o, p, r) /\ BlobExists(o)) =>
                  /\ HasRef(index', HashFile(ws[p][r]), p, r)
                  /\ blobs'[o] = "none" <=> RefsOf(index, o) = {Ref(p, r)}]_vars

\* C13: normalizing a file of content d leaves one blob of d holding d, the
\* file and every file normalized to d before are links of that one blob,
\* and the index lists (profile, rel_path) under d once, beside the
\* references d had.
C13_OneBlobPerContent ==
    [][\A p \in Profiles, r \in WsPaths : NormalizeFile(p, r) =>
          LET d == HashFile(ws[p][r]) IN
              /\ blobs'[d] = d
              /\ ws'[p][r] = BlobFile(d)
              /\ \A q \in Profiles, s \in WsPaths :
                     ws[q][s] = BlobFile(d) => ws'[q][s] = ws'[p][r]
              /\ Count(index'[d], Ref(p, r)) = 1
              /\ RefsOf(index, d) \subseteq RefsOf(index', d)]_vars

\* C13 witness: the same content was normalized in two profiles: both files
\* are links of the one blob and the digest lists both references.
C13_Witness ==
    /\ ws["A"]["b"] = BlobFile("d1")
    /\ ws["B"]["c"] = BlobFile("d1")
    /\ blobs["d1"] = "d1"
    /\ RefsOf(index, "d1") = {Ref("A", "b"), Ref("B", "c")}

Quiescent == \A p \in Profiles, r \in WsPaths : pending[p][r] = "none"
Normalized(p, r) ==
    /\ AlreadyNormalized(ws[p][r])
    /\ BlobExists(ws[p][r].id)
    /\ HasRef(index, ws[p][r].id, p, r)

C15_BlobHoldsItsDigest ==
    \A d \in Digests : BlobExists(d) => blobs[d] = d

LinkCall(w) == txn[w].op = "link_blob_to"
CompleteLink(f) == f.kind = "blob" /\ blobs[f.id] = f.id

\* C16: during and after link_blob_to(dst, blob), a failed rename included,
\* dst is absent or a complete file; after Ok dst is the blob's own file.
C16_DstAbsentOrComplete ==
    /\ \A r \in WsPaths :
          staging[LinkDir].files[r] = NoFile \/ CompleteLink(staging[LinkDir].files[r])
    /\ \A w \in Profiles : (LinkCall(w) /\ txn[w].at = "ok") =>
          /\ staging[LinkDir].files[txn[w].r] = BlobFile(txn[w].d)
          /\ Content(staging[LinkDir].files[txn[w].r]) = blobs[txn[w].d]

\* C16 witness: a call failed between the hard_link and the rename: the temp
\* sibling is there and dst is still the complete link an earlier call made.
C16_Witness ==
    /\ LinkCall(BuildProfile)
    /\ txn[BuildProfile].at = "err"
    /\ staging[LinkDir].files[TmpName] = BlobFile("d2")
    /\ txn[BuildProfile].r = "c"
    /\ staging[LinkDir].files["c"] = BlobFile("d1")

\* C17: link_blob_to never copies: no file holding a copy of a blob's bytes
\* appears, and a call whose hard_link was refused returns Err and leaves
\* every entry of the directory, dst included, as it was.
C17_NoCopyFallback ==
    [][/\ \A n \in DirNames : staging'[LinkDir].files[n].kind \notin {"raw", "partial"}
       /\ \A w \in Profiles, r \in WsPaths, d \in Digests :
             LinkBlobToRefused(w, r, d) =>
                 /\ txn'[w].at = "err"
                 /\ staging'[LinkDir].files = staging[LinkDir].files]_vars

\* C17 witness: a call was refused the hard_link: Err, no temp sibling, and
\* dst is still the link an earlier call made.
C17_Witness ==
    /\ LinkCall(BuildProfile)
    /\ txn[BuildProfile].at = "err"
    /\ txn[BuildProfile].d = "d2"
    /\ txn[BuildProfile].r = "c"
    /\ staging[LinkDir].files[TmpName] = NoFile
    /\ staging[LinkDir].files["c"] = BlobFile("d1")

\* C18 as stated: from every index state, add_ref(d, p, r) followed by
\* remove_ref(d, p, r) gives back the index as it was.
C18_AddRemoveRestores ==
    \A d \in Digests, p \in Profiles, r \in WsPaths :
        RemoveRef(AddRef(index, d, p, r), d, p, r) = index

\* C18 amended: the same, when (p, r) was not listed under d before.
C18_AddRemoveRestoresIfNew ==
    \A d \in Digests, p \in Profiles, r \in WsPaths :
        ~HasRef(index, d, p, r) =>
            RemoveRef(AddRef(index, d, p, r), d, p, r) = index

\* C18 witness: thread A added (A, b) under d1 and then removed it, and d1
\* still lists another reference.
C18_Witness ==
    /\ txn["A"].calls = 2
    /\ txn["A"].op = "remove_ref" /\ txn["A"].d = "d1" /\ txn["A"].r = "b"
    /\ HasRef(txn["A"].loaded, "d1", "A", "b")
    /\ ~HasRef(index, "d1", "A", "b")
    /\ RefsOf(index, "d1") # {}

\* C19: add_ref of a listed reference leaves the index as it is, and after
\* any add_ref the reference is listed exactly once.
C19_AddRefIdempotent ==
    [][\A w \in Profiles, d \in Digests, r \in WsPaths : ApiAddRef(w, d, r) =>
          /\ HasRef(index, d, w, r) => index' = index
          /\ Count(index'[d], Ref(w, r)) = 1]_vars

\* C19 witness: an add_ref was repeated and the index stayed as it was.
C19_Witness ==
    \E w \in Profiles :
        /\ txn[w].op = "add_ref"
        /\ HasRef(txn[w].loaded, txn[w].d, w, txn[w].r)
        /\ index = txn[w].loaded

\* C20: remove_ref(d, p, r) returns true exactly when d has no key in the
\* index afterwards (its list became empty, or d was not there); when it
\* returns false the other references of d are all kept.
C20_RemoveRefResult ==
    [][\A w \in Profiles, d \in Digests, r \in WsPaths : ApiRemoveRef(w, d, r) =>
          /\ RemoveRefResult(index, d, w, r) <=> d \notin DOMAIN index'
          /\ d \in DOMAIN index' =>
                 /\ index'[d] # <<>>
                 /\ RefsOf(index', d) = RefsOf(index, d) \ {Ref(w, r)}
          /\ \A x \in Digests \ {d} : RefsOf(index', x) = RefsOf(index, x)]_vars

\* C20 witness: a remove_ref returned false: it removed a listed reference
\* and the digest kept another.
C20_Witness ==
    \E w \in Profiles :
        /\ txn[w].op = "remove_ref"
        /\ HasRef(txn[w].loaded, txn[w].d, w, txn[w].r)
        /\ ~RemoveRefResult(txn[w].loaded, txn[w].d, w, txn[w].r)
        /\ RefsOf(index, txn[w].d) # {}

\* C21: whatever add_ref, remove_ref and remove_existing_ref calls were made,
\* no digest key of the saved index has an empty reference list.
C21_NoEmptyReferenceList ==
    \A d \in DOMAIN index : index[d] # <<>>

\* C21 witness: remove_existing_ref has removed the only reference of a
\* digest and remove_ref the only reference of another.
C21_Witness ==
    /\ txn["A"].op = "remove_existing_ref"
    /\ EntriesToRemove(txn["A"].loaded, "A", txn["A"].r) # {}
    /\ txn["B"].op = "remove_ref"
    /\ txn["B"].d \in DOMAIN txn["B"].loaded
    /\ RemoveRefResult(txn["B"].loaded, txn["B"].d, "B", txn["B"].r)
    /\ txn["B"].d \notin DOMAIN index

\* C22: remove_existing_ref(p, r) takes (p, r) off the digest listing it and
\* returns that digest, none when nothing listed it; a blob file goes only
\* when (p, r) was its digest's last reference; the references of any other
\* (profile, rel_path) and the blob files still referenced stay as they were.
C22_RemoveExistingRefFrame ==
    /\ [](\A p \in Profiles, r \in WsPaths : FoundHashes(index, p, r) = {} =>
              /\ RemoveExistingRefResult(index, p, r) = {"none"}
              /\ RemoveExistingRefIndex(index, p, r) = index)
    /\ [][\A p \in Profiles, r \in WsPaths : RemoveExistingRef(p, r) =>
              /\ FoundHashes(index', p, r) = {}
              /\ RemoveExistingRefResult(index, p, r) \subseteq FoundHashes(index, p, r)
              /\ \A d \in Digests :
                    /\ blobs'[d] # blobs[d] =>
                          RefsOf(index, d) = {Ref(p, r)} /\ RefsOf(index', d) = {}
                    /\ RefsOf(index', d) = RefsOf(index, d) \ {Ref(p, r)}
                    /\ RefsOf(index', d) # {} => blobs'[d] = blobs[d]]_vars

\* C22 witness: A/b and B/c were links of blob d1; remove_existing_ref(A, b)
\* took A's reference away, B's reference and the blob file are still there.
C22_Witness ==
    /\ ws["A"]["b"] = BlobFile("d1") /\ ws["B"]["c"] = BlobFile("d1")
    /\ ~HasRef(index, "d1", "A", "b")
    /\ HasRef(index, "d1", "B", "c")
    /\ blobs["d1"] = "d1"

\* C23: a call that loads the index while index.json is missing works on the
\* empty index; while index.json does not parse the call returns an error
\* and index.json and the blob files stay as they are.
C23_CorruptIndexIsAnError ==
    [][\A w \in Profiles :
          (txn'[w] # txn[w] /\ txn'[w].op \in IndexOps) =>
              /\ indexFile = "missing" =>
                    txn'[w].at # "err" /\ txn'[w].loaded = EmptyIndex
              /\ indexFile = "corrupt" =>
                    /\ txn'[w].at = "err"
                    /\ indexFile' = "corrupt" /\ index' = index
                    /\ blobs' = blobs]_vars

\* C23 witness: remove_existing_ref returned an error on an index.json that
\* does not parse, which had references in it, with a blob file in the store.
C23_Witness ==
    /\ indexFile = "corrupt"
    /\ index # EmptyIndex
    /\ txn["A"].at = "err" /\ txn["A"].op = "remove_existing_ref"
    /\ \E d \in Digests : BlobExists(d)

\* C24: for every path the node's source is Workspace (writable) when the
\* path is in the workspace only, Base (read-only) when it is in the base
\* only, WorkspaceOverride (writable) when it is in both, and there is no
\* node when it is in neither; a workspace path is never reported as Base.
C24_SourceByPresence ==
    \A p \in OvPaths :
        LET n == BuildVirtualNode(wsTree, tombstones, p)
            inWs == p \in wsTree
            inBase == p \in BaseTree
        IN  /\ (inWs /\ ~inBase) => (n.ok /\ n.source = "Workspace" /\ n.writable)
            /\ (~inWs /\ inBase) => (n.ok /\ n.source = "Base" /\ ~n.writable)
            /\ (inWs /\ inBase) => (n.ok /\ n.source = "WorkspaceOverride" /\ n.writable)
            /\ (~inWs /\ ~inBase) => ~n.ok
            /\ inWs => n.source # "Base"

\* C25: whatever overlay operations were made, every file of the base
\* installation is in the virtual tree, as Base or as WorkspaceOverride.
C25_NeverSubtractive ==
    \A p \in BaseTree :
        /\ Visible(wsTree, tombstones, p)
        /\ BuildVirtualNode(wsTree, tombstones, p).source \in {"Base", "WorkspaceOverride"}

C27_ReservedNamesHidden ==
    \A p \in wsTree :
        NameOf(p) \in ReservedNames =>
            /\ ~Appears(wsTree, tombstones, p)
            /\ p \notin TraverseAndPlan(wsTree)

\* C28: compute_plan has one entry for every file in the overlay view, at
\* any depth, and none for any other path.
C28_PlanCoversEveryLeaf ==
    TraverseAndPlan(wsTree) = {p \in OvPaths : ~IsDirPath(p) /\ Visible(wsTree, {}, p)}

\* C29: the digest planned for a workspace file is the digest of the file's
\* present content, whether find_blob_hash_for_file gave it or hash_file.
C29_PlannedDigestIsContent ==
    \A p \in Profiles, r \in WsPaths :
        InWorkspace(p, r) => GetBlobHashForFile(p, r) = {HashFile(ws[p][r])}

\* C30: compute_plan over the same base, workspace and index has one result.
C30_PlanDeterministic ==
    \A p \in Profiles : Cardinality(ComputePlan(p)) = 1

\* C31: every plan compute_plan can return has total_files = base_files +
\* blob_files = number of entries, and total_size = sum of the entry sizes.
C31_PlanTotals ==
    \A pl \in ComputePlan(BuildProfile) :
        LET rp == RuntimePlan(BuildProfile, pl)
        IN  /\ rp.total_files = rp.base_files + rp.blob_files
            /\ rp.total_files = Cardinality(pl)
            /\ rp.total_size = SumSeq(rp.sizes)

\* C31 witness: a build has planned the base file a and an override of b.
C31_Witness ==
    /\ pc[1] = "createtemp"
    /\ plan[1] \in ComputePlan(BuildProfile)
    /\ \E x \in plan[1] : x.rel_path = "b" /\ x.is_override
    /\ RuntimePlan(BuildProfile, plan[1]).base_files = 1
    /\ RuntimePlan(BuildProfile, plan[1]).blob_files = 1
    /\ RuntimePlan(BuildProfile, plan[1]).total_size > 3

C33_PhasesInOrder ==
    /\ [][\A b \in Builders : Running(b) =>
              PhaseRank[phase'[b]] >= PhaseRank[phase[b]]]_vars
    /\ [](\A b \in Builders : Returned(b) => phase[b] \in {"Complete", "Failed"})

\* C34: at every intermediate step of normalize_file, and after a crash at
\* that step, the content that was hashed is recoverable: the workspace file
\* still holds it or the blob of its digest holds it.
C34_CrashRecoverable ==
    \A w \in Profiles : InNormalize(w) =>
        \/ ws[w][txn[w].r] # NoFile /\ Content(ws[w][txn[w].r]) = txn[w].d
        \/ blobs[txn[w].d] = txn[w].d

\* C35: normalize_file on a file that is already a hardlink to the blob of
\* its content leaves the workspaces and the blob store as they are, and the
\* index too, except that (profile, rel_path) is listed under the digest
\* afterwards when it was not listed before.
C35_RenormalizeIsNoOp ==
    [][\A w \in Profiles, r \in WsPaths :
          (NormalizeHash(w, r) /\ AlreadyNormalized(ws[w][r])) =>
             LET d == HashFile(ws[w][r])
                 before == LoadIndexResult(indexFile, index).refs
                 after == LoadIndexResult(indexFile', index').refs
             IN  /\ ws' = ws
                 /\ blobs' = blobs
                 /\ HasRef(before, d, w, r) => after = before
                 /\ ~HasRef(before, d, w, r) =>
                        /\ DOMAIN after = DOMAIN before \cup {d}
                        /\ \A x \in DOMAIN before \ {d} : after[x] = before[x]
                        /\ after[d] = (IF d \in DOMAIN before THEN before[d] ELSE <<>>)
                                       \o <<Ref(w, r)>>]_vars

\* normalize_file has returned Ok a second time on a file that is the blob
\* of its content and is listed in the index
C35_Witness ==
    \E w \in Profiles, r \in WsPaths :
        /\ txn[w] = [at |-> "ok", op |-> "normalize_file", d |-> HashFile(ws[w][r]),
                     r |-> r, loaded |-> EmptyIndex, calls |-> 2]
        /\ AlreadyNormalized(ws[w][r])
        /\ blobs[txn[w].d] = txn[w].d
        /\ HasRef(LoadIndexResult(indexFile, index).refs, txn[w].d, w, r)

\* the watcher thread has nothing left to do and is still watching
Settled(p) ==
    /\ alive[p] = "watching"
    /\ chan[p] = <<>> /\ batch[p] = <<>> /\ pending[p] = NoPending

Flushes(p) == batch[p] = <<>> /\ batch'[p] # <<>>

\* C37 (as stated): the map is flushed only when it is non-empty and 200 ms
\* have passed since the last event; an event received inside the window
\* restarts the window for all pending paths; and pending paths are flushed
\* once events have stopped for 200 ms.
C37_FlushAfterQuiet ==
    /\ [][\A p \in Profiles : Flushes(p) =>
              /\ pending[p] # NoPending
              /\ quiet[p] + 1 >= QuietTicks
              /\ pending'[p] = NoPending]_vars
    /\ [][\A p \in Profiles : (chan[p] # <<>> /\ chan'[p] = Tail(chan[p])) =>
              quiet'[p] = 0 /\ ~Flushes(p)]_vars
    /\ \A p \in Profiles : (pending[p] # NoPending) ~> (pending[p] = NoPending)

\* C37 (amended): the same, for as long as the workspace is watched: after
\* stop_watching the thread leaves its loop and the pending paths are
\* dropped without a flush.
C37_FlushAfterQuietWhileWatching ==
    /\ [][\A p \in Profiles : Flushes(p) =>
              /\ pending[p] # NoPending
              /\ quiet[p] + 1 >= QuietTicks
              /\ alive[p] = "watching"
              /\ pending'[p] = NoPending]_vars
    /\ [][\A p \in Profiles : (chan[p] # <<>> /\ chan'[p] = Tail(chan[p])) =>
              quiet'[p] = 0 /\ ~Flushes(p)]_vars
    /\ \A p \in Profiles :
          (pending[p] # NoPending) ~> (pending[p] = NoPending \/ alive[p] # "watching")

\* two paths were pending, the second event restarted the window, and both
\* were taken as one batch after the fourth timeout
C37_Witness ==
    /\ alive[BuildProfile] = "watching"
    /\ Len(batch[BuildProfile]) = 2
    /\ pending[BuildProfile] = NoPending
    /\ quiet[BuildProfile] = QuietTicks

\* the step is a normalize_file of p's batch that returned Err
FailedChange(p) ==
    /\ batch[p] # <<>>
    /\ batch'[p] # batch[p]
    /\ <<p, Head(batch[p]).path>> \in dropped'

\* C38: when the processing of one change of a batch fails, the changes
\* after it in the batch are kept and are all processed, the thread does not
\* end, nothing received so far is lost, and events in the channel are
\* still received.
C38_FailureDoesNotAbortBatch ==
    /\ [][\A p \in Profiles : FailedChange(p) =>
              /\ batch'[p] = Tail(batch[p])
              /\ alive'[p] = alive[p]
              /\ pending'[p] = pending[p]
              /\ SubSeq(chan'[p], 1, Len(chan[p])) = chan[p]]_vars
    /\ [][\A p \in Profiles : (alive[p] # "exited" /\ alive'[p] = "exited") =>
              alive[p] = "stopped" /\ batch[p] = <<>> /\ chan[p] = <<>>]_vars
    /\ \A p \in Profiles : (batch[p] # <<>>) ~> (batch[p] = <<>>)
    /\ \A p \in Profiles : (chan[p] # <<>>) ~> (chan[p] = <<>>)

\* normalize_file failed for b, the first change of a batch of two, and the
\* change of c is the next one the loop takes
C38_Witness ==
    /\ <<BuildProfile, "b">> \in dropped
    /\ batch[BuildProfile] = <<Change("c", "Modified")>>
    /\ ws[BuildProfile]["c"] # NoFile

\* C39: in every state, also after remove_existing_ref or normalize_file
\* stopped part-way, every digest that is a key of the index has its blob
\* file in the store.
C39_IndexedBlobOnDisk ==
    \A d \in DOMAIN index : BlobExists(d)

\* C40: cleanup_temp_runtimes running while a build is in progress leaves
\* that build's staging directory as it is, so a build that returns success
\* has published every file of its plan.
C40_CleanupSparesRunningBuild ==
    /\ [][CleanupTempRuntimes =>
              \A b \in Builders : (Running(b) /\ tmp[b] # 0) =>
                  staging'[tmp[b]] = staging[tmp[b]]]_vars
    /\ [][\A b \in Builders : (pc[b] = "saveplan" /\ pc'[b] = "done") =>
              \A e \in plan[b] : latest'.files[e.rel_path] # NoFile]_vars
====
